---------------------------- MODULE Spec2Model ----------------------------
(***************************************************************************)
(* Trackman operational-metrics query layer.                               *)
(*                                                                         *)
(*   - the Source Selector   (data_source_factory.py)                      *)
(*   - the Warehouse-Backed Source (redshift_data_source.py) and its       *)
(*     Schema Allowlist      (redshift_config.py)                          *)
(*                                                                         *)
(* Three specifications share the variables:                               *)
(*   Spec     get_data_source / reset_data_source called from several      *)
(*            threads, one bytecode-level step at a time;                  *)
(*   SpecSeq  the same steps, calls and resets made one after another;     *)
(*   SpecWh   the report operations of a Warehouse-Backed Source.          *)
(***************************************************************************)
EXTENDS Integers, Sequences, FiniteSets, TLC

(***************************************************************************)
(* Bounds of the model.                                                    *)
(***************************************************************************)
NumThreads == 2
MaxCalls == 3
MaxResets == 1
MaxEnvChanges == 1

Threads == 1..NumThreads

(***************************************************************************)
(* The process environment (os.environ).  NONE stands for a variable that  *)
(* is not set (os.getenv returns None).                                    *)
(***************************************************************************)
NONE == "<None>"

FlagVals == {NONE, "true", "TRUE", "false"}
ParamVals == {NONE, "", "x"}
RequiredVars == {"REDSHIFT_HOST", "REDSHIFT_DB", "REDSHIFT_USER", "REDSHIFT_PASSWORD"}
EnvVars == {"USE_REDSHIFT"} \cup RequiredVars

ValsOf(var) == IF var = "USE_REDSHIFT" THEN FlagVals ELSE ParamVals

Envs == { e \in [EnvVars -> FlagVals \cup ParamVals] : \A v \in EnvVars : e[v] \in ValsOf(v) }

\* The environments a process starts with: any flag; the four parameters all
\* set or all unset.  SetEnv reaches the others, one variable at a time.
InitEnvs ==
    { e \in Envs :
        \/ \A v \in RequiredVars : e[v] = NONE
        \/ \A v \in RequiredVars : e[v] = "x" }

\* os.getenv(var, default)
Getenv(e, var, default) == IF e[var] = NONE THEN default ELSE e[var]

\* str.lower() on the values the flag takes
Lower(s) == IF s = "TRUE" THEN "true" ELSE s

\* Python truthiness of an os.getenv result: None and "" are falsy
Truthy(s) == s # NONE /\ s # ""

(***************************************************************************)
(* Source instances.  An instance has an identity (id) and a type (kind).  *)
(***************************************************************************)
NoInst == [id |-> 0, kind |-> "None", data |-> "none"]

DirStates == {"absent", "nofiles", "ioerror", "files"}

\* ExcelDataSource._load_data: which datasets the constructor ends with.
\* Every path ends without an exception.
ExcelLoad(dir) ==
    CASE dir = "absent"  -> [raised |-> FALSE, data |-> "empty"]
      [] dir = "nofiles" -> [raised |-> FALSE, data |-> "empty"]
      [] dir = "ioerror" -> [raised |-> FALSE, data |-> "empty"]
      [] OTHER           -> [raised |-> FALSE, data |-> "loaded"]

\* RedshiftDataSource.__init__: raises ValueError unless all four are truthy
RedshiftInitOKNotNone(e) ==
    \A v \in RequiredVars : Getenv(e, v, NONE) # NONE
RedshiftInitOK(e) ==
    \A v \in RequiredVars : Truthy(Getenv(e, v, NONE))

\* use_redshift = os.getenv("USE_REDSHIFT", "false").lower() == "true"
UseRedshiftDefaultTrue(e) == Lower(Getenv(e, "USE_REDSHIFT", "true")) = "true"
UseRedshift(e) == Lower(Getenv(e, "USE_REDSHIFT", "false")) = "true"

\* missing_vars = [var for var in required_vars if not os.getenv(var)]
MissingVars(e) == { v \in RequiredVars : ~Truthy(Getenv(e, v, NONE)) }

\* the except clause of get_data_source: the error is logged and control
\* continues with the File-Backed construction; nothing is re-raised
OnInitErrorPropagate == "raise"
OnInitError == "L65"

\* the test of the cached instance at the head of get_data_source
IsCachedNever(c) == FALSE
IsCached(c) == c # NoInst

\* reset_data_source: the value stored into the global
ResetValueKeep(c) == c
ResetValue(c) == NoInst

VARIABLES
    env,        \* os.environ
    cache,      \* _data_source_instance
    nextId,     \* identity of the next instance constructed
    pc,         \* per thread: position in get_data_source ("idle": not in a call)
    cur,        \* per thread: what its call in progress has read and done
    last,       \* the call that completed last: its outcome and history
    ncalls,     \* calls begun
    resets,     \* resets done
    envChanges, \* environment changes done
    epoch       \* history since the last reset

fvars == <<env, cache, nextId, pc, cur, last, ncalls, resets, envChanges, epoch>>

NoParams == [v \in RequiredVars |-> NONE]

\* what a call has read and done so far (history of the call, not program state)
\*   ep, seq      the reset count when it began, its rank among the calls since
\*   ec           the count of environment changes when it read the flag
\*   flag, params the values it read at lines 35 and 47
NoObs == [ep |-> 0, seq |-> 0, ec |-> 0, flag |-> NONE, params |-> NoParams,
          resolved |-> FALSE, ctorRaised |-> FALSE]

\* no call has completed yet
NoCall == [some |-> FALSE, ret |-> NoInst, raised |-> FALSE, obs |-> NoObs]

\* history since the last reset
NewEpoch == [constructions |-> 0, returned |-> {}, first |-> NoInst, begun |-> 0,
             prevKind |-> "None"]

FactoryInit ==
    /\ env \in InitEnvs
    /\ cache = NoInst
    /\ nextId = 1
    /\ pc = [t \in Threads |-> "idle"]
    /\ cur = [t \in Threads |-> NoObs]
    /\ last = NoCall
    /\ ncalls = 0
    /\ resets = 0
    /\ envChanges = 0
    /\ epoch = NewEpoch

(***************************************************************************)
(* get_data_source, one step per read or write of shared state.            *)
(***************************************************************************)

\* a caller enters get_data_source
Call(t) ==
    /\ pc[t] = "idle"
    /\ ncalls < MaxCalls
    /\ ncalls' = ncalls + 1
    /\ pc' = [pc EXCEPT ![t] = "L32"]
    /\ epoch' = [epoch EXCEPT !.begun = @ + 1]
    /\ cur' = [cur EXCEPT ![t] = [NoObs EXCEPT !.ep = resets, !.seq = epoch.begun + 1]]
    /\ UNCHANGED <<env, cache, nextId, last, resets, envChanges>>

\* line 32: if _data_source_instance is not None
CheckCache(t) ==
    /\ pc[t] = "L32"
    /\ pc' = [pc EXCEPT ![t] = IF IsCached(cache) THEN "L33" ELSE "L35"]
    /\ UNCHANGED <<env, cache, nextId, cur, last, ncalls, resets, envChanges, epoch>>

\* the return statements of lines 33 and 71: the global is read (again) and returned
ReturnGlobal(t) ==
    /\ pc[t] \in {"L33", "L71"}
    /\ last' = [some |-> TRUE, ret |-> cache, raised |-> FALSE, obs |-> cur[t]]
    /\ pc' = [pc EXCEPT ![t] = "idle"]
    /\ cur' = [cur EXCEPT ![t] = NoObs]
    /\ epoch' = [epoch EXCEPT !.returned = @ \cup {cache},
                              !.first = IF epoch.returned = {} THEN cache ELSE @]
    /\ UNCHANGED <<env, cache, nextId, ncalls, resets, envChanges>>

\* line 35: the flag is read
ReadFlag(t) ==
    /\ pc[t] = "L35"
    /\ pc' = [pc EXCEPT ![t] = IF UseRedshift(env) THEN "L47" ELSE "L68"]
    /\ cur' = [cur EXCEPT ![t].flag = env["USE_REDSHIFT"], ![t].ec = envChanges]
    /\ UNCHANGED <<env, cache, nextId, last, ncalls, resets, envChanges, epoch>>

\* lines 40-49: the four required variables are read
CheckVars(t) ==
    /\ pc[t] = "L47"
    /\ pc' = [pc EXCEPT ![t] = IF MissingVars(env) # {} THEN "L54" ELSE "L57"]
    /\ cur' = [cur EXCEPT ![t].params = [v \in RequiredVars |-> env[v]]]
    /\ UNCHANGED <<env, cache, nextId, last, ncalls, resets, envChanges, epoch>>

\* an exception leaves get_data_source: the call ends without a value
Raise(t) ==
    /\ last' = [some |-> TRUE, ret |-> NoInst, raised |-> TRUE, obs |-> cur[t]]
    /\ pc' = [pc EXCEPT ![t] = "idle"]
    /\ cur' = [cur EXCEPT ![t] = NoObs]

\* lines 54, 65 and 68: _data_source_instance = ExcelDataSource()
ConstructExcel(t) ==
    /\ pc[t] \in {"L54", "L65", "L68"}
    /\ \E dir \in DirStates :
         LET r == ExcelLoad(dir) IN
           IF r.raised
           THEN /\ Raise(t)
                /\ UNCHANGED <<cache, nextId, epoch>>
           ELSE /\ cache' = [id |-> nextId, kind |-> "excel", data |-> r.data]
                /\ nextId' = nextId + 1
                /\ pc' = [pc EXCEPT ![t] = "L71"]
                /\ cur' = [cur EXCEPT ![t].resolved = TRUE]
                /\ epoch' = [epoch EXCEPT !.constructions = @ + 1]
                /\ UNCHANGED last
    /\ UNCHANGED <<env, ncalls, resets, envChanges>>

\* line 57: _data_source_instance = RedshiftDataSource(), inside the try block
ConstructRedshift(t) ==
    /\ pc[t] = "L57"
    /\ IF RedshiftInitOK(env)
       THEN /\ cache' = [id |-> nextId, kind |-> "redshift", data |-> "none"]
            /\ nextId' = nextId + 1
            /\ pc' = [pc EXCEPT ![t] = "L71"]
            /\ cur' = [cur EXCEPT ![t].resolved = TRUE]
            /\ epoch' = [epoch EXCEPT !.constructions = @ + 1]
            /\ UNCHANGED last
       ELSE /\ IF OnInitError = "raise"
               THEN Raise(t)
               ELSE /\ pc' = [pc EXCEPT ![t] = OnInitError]
                    /\ cur' = [cur EXCEPT ![t].ctorRaised = TRUE]
                    /\ UNCHANGED last
            /\ UNCHANGED <<cache, nextId, epoch>>
    /\ UNCHANGED <<env, ncalls, resets, envChanges>>

\* reset_data_source
Reset ==
    /\ resets < MaxResets
    /\ resets' = resets + 1
    /\ cache' = ResetValue(cache)
    /\ epoch' = [NewEpoch EXCEPT !.prevKind = cache.kind]
    /\ UNCHANGED <<env, nextId, pc, cur, last, ncalls, envChanges>>

\* the environment is changed (a test's patch.dict, another thread's os.environ[...] = ...)
SetEnv ==
    /\ envChanges < MaxEnvChanges
    /\ \E v \in EnvVars : \E x \in ValsOf(v) :
         /\ x # env[v]
         /\ env' = [env EXCEPT ![v] = x]
    /\ envChanges' = envChanges + 1
    /\ UNCHANGED <<cache, nextId, pc, cur, last, ncalls, resets, epoch>>

Step(t) ==
    \/ CheckCache(t)
    \/ ReturnGlobal(t)
    \/ ReadFlag(t)
    \/ CheckVars(t)
    \/ ConstructExcel(t)
    \/ ConstructRedshift(t)

AllIdle == \A t \in Threads : pc[t] = "idle"

(***************************************************************************)
(* Schema Allowlist (redshift_config.py).                                  *)
(***************************************************************************)
ALLOWED_TABLES ==
    [errors |-> <<"timestamp", "facility_id", "unit_id", "unit_model", "error_code",
                  "severity", "error_message">>,
     connectivity |-> <<"timestamp", "facility_id", "unit_id", "connectivity_status",
                        "disconnect_reason">>,
     facility_metadata |-> <<"facility_id", "location", "opening_hours",
                             "subscription_status", "units_deployed", "usage_hours_30d",
                             "strokes_tracked", "tournaments_hosted">>,
     data_quality |-> <<"timestamp", "facility_id", "data_quality_score",
                        "missing_records", "latency_ms">>]

Range(f) == { f[i] : i \in DOMAIN f }

validate_table(table_name) == table_name \in DOMAIN ALLOWED_TABLES

validate_columns_any(table_name, columns) ==
    IF table_name \notin DOMAIN ALLOWED_TABLES
    THEN FALSE
    ELSE columns \cap Range(ALLOWED_TABLES[table_name]) # {}
validate_columns(table_name, columns) ==
    IF table_name \notin DOMAIN ALLOWED_TABLES
    THEN FALSE
    ELSE columns \subseteq Range(ALLOWED_TABLES[table_name])

(***************************************************************************)
(* Warehouse-Backed Source (redshift_data_source.py).                      *)
(*                                                                         *)
(* A query is the text handed to cursor.execute, as a sequence of tokens   *)
(* in which "%s" is a placeholder, with the tuple of bound parameters, the *)
(* table and the columns of it that the text names, and the names of the   *)
(* columns of the result.                                                  *)
(***************************************************************************)
Reports == {"errors_summary", "top_error_messages", "connectivity_summary",
            "disconnect_reasons", "facility_summary", "data_quality_summary"}

RangeVals == {7, 30}
LimitVals == {1, 10}
FacVals == {NONE, "", "FAC001", "FAC002"}
NowVals == {100, 101}
Schemas == {"public", "ops"}
MaxRows == 1

NoQuery == [text |-> <<>>, params |-> <<>>, table |-> NONE, cols |-> {}, columns |-> <<>>]

\* get_errors_summary, lines 113-146
ErrorsSummaryQueryExtraColumn(cutoff_date, facility_id, schema) ==
    [text |-> <<"SELECT facility_id, COUNT(*) as error_count, MAX(unit_serial) as critical_count,",
                "COUNT(DISTINCT error_code) as unique_errors FROM", schema, ".", "errors",
                "WHERE timestamp >=", "%s", "GROUP BY facility_id">>,
     params |-> <<cutoff_date>>,
     table |-> "errors",
     cols |-> {"facility_id", "unit_serial", "error_code", "timestamp"},
     columns |-> <<"facility_id", "error_count", "critical_count", "unique_errors">>]
ErrorsSummaryQuery(cutoff_date, facility_id, schema) ==
    IF Truthy(facility_id)
    THEN [text |-> <<"SELECT facility_id, COUNT(*) as error_count,",
                     "SUM(CASE WHEN severity = 'critical' THEN 1 ELSE 0 END) as critical_count,",
                     "COUNT(DISTINCT error_code) as unique_errors FROM", schema, ".", "errors",
                     "WHERE timestamp >=", "%s", "AND facility_id =", "%s",
                     "GROUP BY facility_id">>,
          params |-> <<cutoff_date, facility_id>>,
          table |-> "errors",
          cols |-> {"facility_id", "severity", "error_code", "timestamp"},
          columns |-> <<"facility_id", "error_count", "critical_count", "unique_errors">>]
    ELSE [text |-> <<"SELECT facility_id, COUNT(*) as error_count,",
                     "SUM(CASE WHEN severity = 'critical' THEN 1 ELSE 0 END) as critical_count,",
                     "COUNT(DISTINCT error_code) as unique_errors FROM", schema, ".", "errors",
                     "WHERE timestamp >=", "%s", "GROUP BY facility_id">>,
          params |-> <<cutoff_date>>,
          table |-> "errors",
          cols |-> {"facility_id", "severity", "error_code", "timestamp"},
          columns |-> <<"facility_id", "error_count", "critical_count", "unique_errors">>]

\* get_top_error_messages, lines 165-202
TopErrorMessagesQueryInterpolated(cutoff_date, facility_id, limit, schema) ==
    [text |-> <<"SELECT error_message, error_code, COUNT(*) as count, MAX(severity) as severity",
                "FROM", schema, ".", "errors", "WHERE timestamp >=", "%s",
                "AND facility_id =", "'", facility_id, "'",
                "GROUP BY error_message, error_code ORDER BY count DESC LIMIT", "%s">>,
     params |-> <<cutoff_date, limit>>,
     table |-> "errors",
     cols |-> {"error_message", "error_code", "severity", "timestamp", "facility_id"},
     columns |-> <<"error_message", "error_code", "count", "severity">>]
TopErrorMessagesQuery(cutoff_date, facility_id, limit, schema) ==
    IF Truthy(facility_id)
    THEN [text |-> <<"SELECT error_message, error_code, COUNT(*) as count, MAX(severity) as severity",
                     "FROM", schema, ".", "errors", "WHERE timestamp >=", "%s",
                     "AND facility_id =", "%s",
                     "GROUP BY error_message, error_code ORDER BY count DESC LIMIT", "%s">>,
          params |-> <<cutoff_date, facility_id, limit>>,
          table |-> "errors",
          cols |-> {"error_message", "error_code", "severity", "timestamp", "facility_id"},
          columns |-> <<"error_message", "error_code", "count", "severity">>]
    ELSE [text |-> <<"SELECT error_message, error_code, COUNT(*) as count, MAX(severity) as severity",
                     "FROM", schema, ".", "errors", "WHERE timestamp >=", "%s",
                     "GROUP BY error_message, error_code ORDER BY count DESC LIMIT", "%s">>,
          params |-> <<cutoff_date, limit>>,
          table |-> "errors",
          cols |-> {"error_message", "error_code", "severity", "timestamp"},
          columns |-> <<"error_message", "error_code", "count", "severity">>]

\* get_connectivity_summary, lines 222-255
ConnectivitySummaryQuery(cutoff_date, facility_id, schema) ==
    IF Truthy(facility_id)
    THEN [text |-> <<"SELECT facility_id, COUNT(*) as total_events,",
                     "SUM(CASE WHEN connectivity_status = 'connected' THEN 1 ELSE 0 END) as connected_count,",
                     "ROUND(100.0 * SUM(CASE WHEN connectivity_status = 'connected' THEN 1 ELSE 0 END) / COUNT(*), 2) as connected_pct",
                     "FROM", schema, ".", "connectivity", "WHERE timestamp >=", "%s",
                     "AND facility_id =", "%s", "GROUP BY facility_id">>,
          params |-> <<cutoff_date, facility_id>>,
          table |-> "connectivity",
          cols |-> {"facility_id", "connectivity_status", "timestamp"},
          columns |-> <<"facility_id", "total_events", "connected_count", "connected_pct">>]
    ELSE [text |-> <<"SELECT facility_id, COUNT(*) as total_events,",
                     "SUM(CASE WHEN connectivity_status = 'connected' THEN 1 ELSE 0 END) as connected_count,",
                     "ROUND(100.0 * SUM(CASE WHEN connectivity_status = 'connected' THEN 1 ELSE 0 END) / COUNT(*), 2) as connected_pct",
                     "FROM", schema, ".", "connectivity", "WHERE timestamp >=", "%s",
                     "GROUP BY facility_id">>,
          params |-> <<cutoff_date>>,
          table |-> "connectivity",
          cols |-> {"facility_id", "connectivity_status", "timestamp"},
          columns |-> <<"facility_id", "total_events", "connected_count", "connected_pct">>]

\* get_disconnect_reasons, lines 274-310
DisconnectReasonsQuery(cutoff_date, facility_id, schema) ==
    IF Truthy(facility_id)
    THEN [text |-> <<"SELECT disconnect_reason, COUNT(*) as count,",
                     "ROUND(100.0 * COUNT(*) / SUM(COUNT(*)) OVER (), 2) as percentage",
                     "FROM", schema, ".", "connectivity", "WHERE timestamp >=", "%s",
                     "AND connectivity_status = 'disconnected'", "AND facility_id =", "%s",
                     "GROUP BY disconnect_reason ORDER BY count DESC">>,
          params |-> <<cutoff_date, facility_id>>,
          table |-> "connectivity",
          cols |-> {"disconnect_reason", "timestamp", "connectivity_status", "facility_id"},
          columns |-> <<"disconnect_reason", "count", "percentage">>]
    ELSE [text |-> <<"SELECT disconnect_reason, COUNT(*) as count,",
                     "ROUND(100.0 * COUNT(*) / SUM(COUNT(*)) OVER (), 2) as percentage",
                     "FROM", schema, ".", "connectivity", "WHERE timestamp >=", "%s",
                     "AND connectivity_status = 'disconnected'",
                     "GROUP BY disconnect_reason ORDER BY count DESC">>,
          params |-> <<cutoff_date>>,
          table |-> "connectivity",
          cols |-> {"disconnect_reason", "timestamp", "connectivity_status"},
          columns |-> <<"disconnect_reason", "count", "percentage">>]

\* get_facility_summary, lines 326-351: the metadata query
FacilityMetaQuery(facility_id, schema) ==
    [text |-> <<"SELECT 'location' as metric, location as value FROM", schema,
                ".facility_metadata WHERE facility_id =", "%s",
                "UNION ALL SELECT 'opening_hours', opening_hours FROM", schema,
                ".facility_metadata WHERE facility_id =", "%s",
                "UNION ALL SELECT 'subscription_status', subscription_status FROM", schema,
                ".facility_metadata WHERE facility_id =", "%s",
                "UNION ALL SELECT 'units_deployed', CAST(units_deployed AS VARCHAR) FROM", schema,
                ".facility_metadata WHERE facility_id =", "%s",
                "UNION ALL SELECT 'usage_hours_30d', CAST(usage_hours_30d AS VARCHAR) FROM", schema,
                ".facility_metadata WHERE facility_id =", "%s",
                "UNION ALL SELECT 'strokes_tracked', CAST(strokes_tracked AS VARCHAR) FROM", schema,
                ".facility_metadata WHERE facility_id =", "%s",
                "UNION ALL SELECT 'tournaments_hosted', CAST(tournaments_hosted AS VARCHAR) FROM", schema,
                ".facility_metadata WHERE facility_id =", "%s">>,
     params |-> <<facility_id, facility_id, facility_id, facility_id, facility_id,
                  facility_id, facility_id>>,
     table |-> "facility_metadata",
     cols |-> {"location", "opening_hours", "subscription_status", "units_deployed",
               "usage_hours_30d", "strokes_tracked", "tournaments_hosted", "facility_id"},
     columns |-> <<"metric", "value">>]

\* get_facility_summary, lines 359-377: the error aggregates
FacilityErrorQuery(facility_id, cutoff_date, schema) ==
    [text |-> <<"SELECT 'errors_total' as metric, CAST(COUNT(*) AS VARCHAR) as value FROM", schema,
                ".errors WHERE facility_id =", "%s", "AND timestamp >=", "%s",
                "UNION ALL SELECT 'errors_critical',",
                "CAST(SUM(CASE WHEN severity = 'critical' THEN 1 ELSE 0 END) AS VARCHAR) FROM", schema,
                ".errors WHERE facility_id =", "%s", "AND timestamp >=", "%s">>,
     params |-> <<facility_id, cutoff_date, facility_id, cutoff_date>>,
     table |-> "errors",
     cols |-> {"facility_id", "timestamp", "severity"},
     columns |-> <<"metric", "value">>]

\* get_data_quality_summary, lines 398-431
DataQualityQuery(cutoff_date, facility_id, schema) ==
    IF Truthy(facility_id)
    THEN [text |-> <<"SELECT facility_id, ROUND(AVG(data_quality_score), 2) as avg_quality_score,",
                     "SUM(missing_records) as total_missing_records,",
                     "ROUND(AVG(latency_ms), 2) as avg_latency_ms",
                     "FROM", schema, ".", "data_quality", "WHERE timestamp >=", "%s",
                     "AND facility_id =", "%s", "GROUP BY facility_id">>,
          params |-> <<cutoff_date, facility_id>>,
          table |-> "data_quality",
          cols |-> {"facility_id", "data_quality_score", "missing_records", "latency_ms",
                    "timestamp"},
          columns |-> <<"facility_id", "avg_quality_score", "total_missing_records",
                        "avg_latency_ms">>]
    ELSE [text |-> <<"SELECT facility_id, ROUND(AVG(data_quality_score), 2) as avg_quality_score,",
                     "SUM(missing_records) as total_missing_records,",
                     "ROUND(AVG(latency_ms), 2) as avg_latency_ms",
                     "FROM", schema, ".", "data_quality", "WHERE timestamp >=", "%s",
                     "GROUP BY facility_id">>,
          params |-> <<cutoff_date>>,
          table |-> "data_quality",
          cols |-> {"facility_id", "data_quality_score", "missing_records", "latency_ms",
                    "timestamp"},
          columns |-> <<"facility_id", "avg_quality_score", "total_missing_records",
                        "avg_latency_ms">>]

\* the query that statement qi of a report operation builds
BuildQuery(req, qi, cutoff, schema) ==
    CASE req.report = "errors_summary" -> ErrorsSummaryQuery(cutoff, req.facility_id, schema)
      [] req.report = "top_error_messages" ->
            TopErrorMessagesQuery(cutoff, req.facility_id, req.limit, schema)
      [] req.report = "connectivity_summary" ->
            ConnectivitySummaryQuery(cutoff, req.facility_id, schema)
      [] req.report = "disconnect_reasons" ->
            DisconnectReasonsQuery(cutoff, req.facility_id, schema)
      [] req.report = "data_quality_summary" ->
            DataQualityQuery(cutoff, req.facility_id, schema)
      [] req.report = "facility_summary" /\ qi = 1 -> FacilityMetaQuery(req.facility_id, schema)
      [] OTHER -> FacilityErrorQuery(req.facility_id, cutoff, schema)

(***************************************************************************)
(* The statements of a report operation that touch the allowlist, the      *)
(* clock or the database, in program order.                                *)
(***************************************************************************)
Validate(tb) == [op |-> "validate", table |-> tb, qi |-> 0]
Cutoff == [op |-> "cutoff", table |-> NONE, qi |-> 0]
Query(n) == [op |-> "query", table |-> NONE, qi |-> n]
Format == [op |-> "format", table |-> NONE, qi |-> 0]

ProgramUnvalidatedErrors(report) ==
    CASE report = "errors_summary" -> <<Validate("errors"), Cutoff, Query(1), Format>>
      [] report = "top_error_messages" -> <<Validate("errors"), Cutoff, Query(1), Format>>
      [] report = "connectivity_summary" -> <<Validate("connectivity"), Cutoff, Query(1), Format>>
      [] report = "disconnect_reasons" -> <<Validate("connectivity"), Cutoff, Query(1), Format>>
      [] report = "data_quality_summary" -> <<Validate("data_quality"), Cutoff, Query(1), Format>>
      [] OTHER -> <<Validate("facility_metadata"), Query(1), Cutoff, Query(2), Format>>
Program(report) ==
    CASE report = "errors_summary" -> <<Validate("errors"), Cutoff, Query(1), Format>>
      [] report = "top_error_messages" -> <<Validate("errors"), Cutoff, Query(1), Format>>
      [] report = "connectivity_summary" -> <<Validate("connectivity"), Cutoff, Query(1), Format>>
      [] report = "disconnect_reasons" -> <<Validate("connectivity"), Cutoff, Query(1), Format>>
      [] report = "data_quality_summary" -> <<Validate("data_quality"), Cutoff, Query(1), Format>>
      [] OTHER -> <<Validate("facility_metadata"), Query(1), Cutoff, Validate("errors"),
                    Query(2), Format>>

\* _execute_query's finally clause: if conn: conn.close()
CloseInFinallyOnSuccess(conn, exc) == conn = "open" /\ exc = NONE
CloseInFinally(conn, exc) == conn = "open"

\* RedshiftDataSource._format_result
RedshiftFormatResultStaleCount(query_result, metadata) ==
    [columns |-> query_result.columns,
     rows |-> query_result.rows,
     metadata |-> [metadata EXCEPT !.source = "redshift"]]
RedshiftFormatResult(query_result, metadata) ==
    [columns |-> query_result.columns,
     rows |-> query_result.rows,
     metadata |-> [metadata EXCEPT !.source = "redshift", !.rowCount = Len(query_result.rows)]]

\* the metadata a report operation passes to _format_result (source and
\* rowCount are filled in by it)
ReportMetadata(req) ==
    IF req.report = "top_error_messages"
    THEN [range_days |-> req.range_days, limit |-> req.limit, facility_id |-> req.facility_id,
          source |-> NONE, rowCount |-> 0]
    ELSE [range_days |-> req.range_days, facility_id |-> req.facility_id,
          source |-> NONE, rowCount |-> 0]

\* what the cursor hands back: n rows, each as wide as the result's columns
Rows(n, columns) == [i \in 1..n |-> [j \in 1..Len(columns) |-> "v"]]

Requests ==
    { r \in [report : Reports, range_days : RangeVals, facility_id : FacVals, limit : LimitVals] :
        r.report # "top_error_messages" => r.limit = 10 }

NoResult == [status |-> "none", error |-> NONE]

VARIABLES
    wschema,  \* self.schema of the Warehouse-Backed Source
    wpc,      \* "idle" or "run": inside a report operation
    wreq,     \* the request of the report operation in progress (or completed last)
    wip,      \* index of the next statement of Program(wreq.report)
    wsub,     \* inside _execute_query: "connect", "execute" or "finally"
    wcut,     \* cutoff_date
    wconn,    \* _execute_query's local conn: "None", "open" or "closed"
    wexc,     \* the exception in flight inside _execute_query, or NONE
    wqres,    \* the query results of this call so far, in order
    wopen,    \* connections that are open at the database
    wlog,     \* what this call has done to the allowlist and the database, in order
    wprev,    \* the queries the previous call executed
    wres      \* outcome of the call that completed last

wvars == <<wschema, wpc, wreq, wip, wsub, wcut, wconn, wexc, wqres, wopen, wlog, wprev, wres>>

NoRequest == [report |-> NONE, range_days |-> 0, facility_id |-> NONE, limit |-> 0]

WhIdle ==
    /\ wpc = "idle"
    /\ wreq = NoRequest
    /\ wip = 0
    /\ wsub = "connect"
    /\ wcut = 0
    /\ wconn = "None"
    /\ wexc = NONE
    /\ wqres = <<>>
    /\ wopen = 0
    /\ wlog = <<>>
    /\ wprev = {}
    /\ wres = NoResult

\* an entry of the log: a validation of a table, a connection attempt, the
\* execution of the query of statement qi, the closing of the connection
Event(ev, tb, ok, qi, q) == [ev |-> ev, table |-> tb, ok |-> ok, qi |-> qi, q |-> q]

\* the queries a log holds: report, statement, the facility id asked for,
\* whether that is a facility filter, and the text executed
Executed(req, log) ==
    { [report |-> req.report, qi |-> log[i].qi, facility_id |-> req.facility_id,
       filtered |-> Truthy(req.facility_id), text |-> log[i].q.text] :
         i \in { j \in DOMAIN log : log[j].ev = "execute" } }

Stmt == Program(wreq.report)[wip]

\* a report operation is called
WCall(req) ==
    /\ wpc = "idle"
    /\ wpc' = "run"
    /\ wreq' = req
    /\ wip' = 1
    /\ wsub' = "connect"
    /\ wcut' = 0
    /\ wconn' = "None"
    /\ wexc' = NONE
    /\ wqres' = <<>>
    /\ wlog' = <<>>
    /\ wprev' = IF wreq = NoRequest THEN {} ELSE Executed(wreq, wlog)
    /\ wres' = NoResult
    /\ UNCHANGED <<wschema, wopen>>

\* an exception leaves the report operation (its except clause logs and re-raises)
WRaiseSwallowed(err) ==
    /\ wpc' = "idle"
    /\ wres' = [status |-> "returned", error |-> NONE]
WRaise(err) ==
    /\ wpc' = "idle"
    /\ wres' = [status |-> "raised", error |-> err]

\* self._validate_table_access(table)
WValidate ==
    /\ wpc = "run" /\ Stmt.op = "validate"
    /\ wlog' = Append(wlog, Event("validate", Stmt.table, validate_table(Stmt.table), 0, NoQuery))
    /\ IF validate_table(Stmt.table)
       THEN /\ wip' = wip + 1
            /\ UNCHANGED <<wpc, wres>>
       ELSE /\ WRaise("ValueError")
            /\ UNCHANGED wip
    /\ UNCHANGED <<wschema, wreq, wsub, wcut, wconn, wexc, wqres, wopen, wprev>>

\* cutoff_date = self._get_date_filter(range_days): datetime.now() - timedelta(days=range_days)
WCutoff ==
    /\ wpc = "run" /\ Stmt.op = "cutoff"
    /\ \E now \in NowVals : wcut' = now - wreq.range_days
    /\ wip' = wip + 1
    /\ UNCHANGED <<wschema, wpc, wreq, wsub, wconn, wexc, wqres, wopen, wlog, wprev, wres>>

\* the query of the statement in progress
CurQuery == BuildQuery(wreq, Stmt.qi, wcut, wschema)

\* _execute_query, line 64: conn = self._get_connection()
WConnect ==
    /\ wpc = "run" /\ Stmt.op = "query" /\ wsub = "connect"
    /\ \E ok \in BOOLEAN :
         /\ wlog' = Append(wlog, Event("connect", CurQuery.table, ok, Stmt.qi, NoQuery))
         /\ IF ok
            THEN /\ wconn' = "open"
                 /\ wopen' = wopen + 1
                 /\ wsub' = "execute"
                 /\ UNCHANGED wexc
            ELSE /\ wconn' = "None"
                 /\ wexc' = "OperationalError"
                 /\ wsub' = "finally"
                 /\ UNCHANGED wopen
    /\ UNCHANGED <<wschema, wpc, wreq, wip, wcut, wqres, wprev, wres>>

\* _execute_query, lines 65-72: cur.execute(query, params), fetchall, description
WExecute ==
    /\ wpc = "run" /\ Stmt.op = "query" /\ wsub = "execute"
    /\ \E ok \in BOOLEAN :
         /\ wlog' = Append(wlog, Event("execute", CurQuery.table, ok, Stmt.qi, CurQuery))
         /\ IF ok
            THEN /\ \E n \in 0..MaxRows :
                      wqres' = Append(wqres, [columns |-> CurQuery.columns,
                                              rows |-> Rows(n, CurQuery.columns)])
                 /\ UNCHANGED wexc
            ELSE /\ wexc' = "DatabaseError"
                 /\ UNCHANGED wqres
    /\ wsub' = "finally"
    /\ UNCHANGED <<wschema, wpc, wreq, wip, wcut, wconn, wopen, wprev, wres>>

\* _execute_query, lines 73-78: the except clause re-raises, the finally clause
\* closes the connection; then the result is returned or the error propagates
\* through the report operation's except clause to its caller
WFinally ==
    /\ wpc = "run" /\ Stmt.op = "query" /\ wsub = "finally"
    /\ IF CloseInFinally(wconn, wexc)
       THEN /\ wconn' = "closed"
            /\ wopen' = wopen - 1
            /\ wlog' = Append(wlog, Event("close", NONE, TRUE, Stmt.qi, NoQuery))
       ELSE UNCHANGED <<wconn, wopen, wlog>>
    /\ IF wexc # NONE
       THEN /\ WRaise(wexc)
            /\ UNCHANGED <<wip, wsub>>
       ELSE /\ wip' = wip + 1
            /\ wsub' = "connect"
            /\ UNCHANGED <<wpc, wres>>
    /\ wexc' = NONE
    /\ UNCHANGED <<wschema, wreq, wcut, wqres, wprev>>

\* the rows of the results of this call's queries, concatenated
\* (get_facility_summary: result["rows"].extend(error_result["rows"]))
Combined(results) ==
    [columns |-> results[1].columns,
     rows |-> IF Len(results) = 1 THEN results[1].rows
              ELSE results[1].rows \o results[2].rows]

\* return self._format_result(result, {...})
WFormat ==
    /\ wpc = "run" /\ Stmt.op = "format"
    /\ wpc' = "idle"
    /\ wres' = [status |-> "returned", error |-> NONE,
                result |-> RedshiftFormatResult(Combined(wqres), ReportMetadata(wreq))]
    /\ UNCHANGED <<wschema, wreq, wip, wsub, wcut, wconn, wexc, wqres, wopen, wlog, wprev>>

TableNames == DOMAIN ALLOWED_TABLES \cup {"unauthorized_table"}

\* _validate_table_access called on its own with any table name
WValidateAccess(name) ==
    /\ wpc = "idle"
    /\ wreq' = NoRequest
    /\ wprev' = {}
    /\ wlog' = <<Event("validate", name, validate_table(name), 0, NoQuery)>>
    /\ wres' = IF validate_table(name)
               THEN [status |-> "returned", error |-> NONE]
               ELSE [status |-> "raised", error |-> "ValueError"]
    /\ UNCHANGED <<wschema, wpc, wip, wsub, wcut, wconn, wexc, wqres, wopen>>

(***************************************************************************)
(* Stored records and Tabular Results.                                     *)
(*                                                                         *)
(* A cell of a result row is a string, an integer, a decimal number (held  *)
(* in hundredths) or null (None / NaN).                                    *)
(***************************************************************************)
S(s) == [ty |-> "str", s |-> s, n |-> 0]
N(n) == [ty |-> "int", s |-> "", n |-> n]
D(h) == [ty |-> "dec", s |-> "", n |-> h]
NULL == [ty |-> "null", s |-> "", n |-> 0]

MaxRecs == 2

Facs == {"FAC001", "FAC002"}
\* ascending order of the facility ids (pandas groupby sorts the group keys)
FacOrder == <<"FAC001", "FAC002">>
TsVals == {93, 99}
Sevs == {"critical", "warning"}
Codes == {"E001", "E002"}
Reasons == {"timeout", "power_loss"}

\* the columns of an error event that the report operations read
ErrRecs == [timestamp : TsVals, facility_id : Facs, severity : Sevs, error_code : Codes,
            error_message : {"Error message 1"}]

\* disconnect_reason is present only when the unit is disconnected
ConnRecs ==
    { r \in [timestamp : TsVals, facility_id : Facs,
             connectivity_status : {"connected", "disconnected"},
             disconnect_reason : Reasons \cup {""}] :
        /\ r.connectivity_status = "connected" => r.disconnect_reason = ""
        /\ r.connectivity_status = "disconnected" =>
              r.disconnect_reason = (IF r.timestamp = 93 THEN "timeout" ELSE "power_loss") }

QualRecs ==
    { r \in [timestamp : TsVals, facility_id : Facs, data_quality_score : {90, 95},
             missing_records : {3}, latency_ms : {120}] :
        r.data_quality_score = (IF r.timestamp = 93 THEN 90 ELSE 95) }

\* the metadata row of a facility
MetaOf(f) ==
    [facility_id |-> f, location |-> "New York", opening_hours |-> "9-5",
     subscription_status |-> "active", units_deployed |-> "10", usage_hours_30d |-> "240",
     strokes_tracked |-> "50000", tournaments_hosted |-> "5"]

MetaRecs == { MetaOf(f) : f \in Facs }

Sheets == {"errors", "connectivity", "facility_metadata", "data_quality"}

RecsOf(sheet) ==
    CASE sheet = "errors" -> ErrRecs
      [] sheet = "connectivity" -> ConnRecs
      [] sheet = "facility_metadata" -> MetaRecs
      [] OTHER -> QualRecs

\* the subsets of a set with at most k elements
RECURSIVE UpTo(_, _)
UpTo(set, k) ==
    IF k = 0 THEN {{}}
    ELSE LET smaller == UpTo(set, k - 1)
         IN smaller \cup { x \cup {e} : x \in smaller, e \in set }

\* the records of the four logical tables: at most MaxRecs events in all
Stores ==
    { st \in [errors : UpTo(ErrRecs, MaxRecs), connectivity : UpTo(ConnRecs, MaxRecs),
              facility_metadata : SUBSET MetaRecs, data_quality : UpTo(QualRecs, MaxRecs)] :
        Cardinality(st.errors) + Cardinality(st.connectivity)
          + Cardinality(st.data_quality) <= MaxRecs }

(***************************************************************************)
(* Arithmetic of the aggregates.                                           *)
(***************************************************************************)
\* num / den rounded to 2 decimals, in hundredths
Round2(num, den) == ((200 * num) \div den + 1) \div 2

\* 100 * part / total rounded to 2 decimals, in hundredths
Pct(part, total) == Round2(100 * part, total)

RECURSIVE SumField(_, _)
SumField(recs, field) ==
    IF recs = {} THEN 0
    ELSE LET r == CHOOSE x \in recs : TRUE
         IN r[field] + SumField(recs \ {r}, field)

\* the mean of a numeric column rounded to 2 decimals, in hundredths
Mean2(recs, field) == Round2(SumField(recs, field), Cardinality(recs))

\* the orders in which a set of rows can be returned: the number in column
\* col never increases along the rows when ordered is TRUE, any order
\* otherwise
Orderings(rows, col, ordered) ==
    { f \in [1..Cardinality(rows) -> rows] :
        /\ \A i, j \in DOMAIN f : i # j => f[i] # f[j]
        /\ ordered => \A i, j \in DOMAIN f : i < j => f[i][col].n >= f[j][col].n }

\* seq.head(n) / LIMIT n
TakeAll(seq, n) == seq
Take(seq, n) == IF Len(seq) <= n THEN seq ELSE SubSeq(seq, 1, n)

(***************************************************************************)
(* File-Backed Source (excel_data_source.py).                              *)
(*                                                                         *)
(* self._data maps each sheet name to a frame.  A frame built from a sheet *)
(* has the sheet's columns; pd.DataFrame() has no column and no row.       *)
(* A result frame is a sequence of column names and a sequence of rows.    *)
(***************************************************************************)
NoFrame(sheet) == [sheet |-> sheet, cols |-> FALSE, recs |-> {}]

FrameOf(sheet, recs) == [sheet |-> sheet, cols |-> TRUE, recs |-> recs]

\* ExcelDataSource._initialize_empty_data
EmptyData == [sh \in Sheets |-> NoFrame(sh)]

\* c in df.columns
HasColumn(df, c) == df.cols /\ c \in Range(ALLOWED_TABLES[df.sheet])

\* df.empty
DfEmpty(df) == ~df.cols \/ df.recs = {}

\* a frame without rows, as it is handed to _format_result
RawFrame(df) ==
    [columns |-> IF df.cols THEN ALLOWED_TABLES[df.sheet] ELSE <<>>, rows |-> <<>>]

\* what a report operation hands back to its caller
Returned(result) == [status |-> "returned", error |-> NONE, result |-> result]
Raised(err) == [status |-> "raised", error |-> err]

\* ExcelDataSource._filter_by_date_range
FilterByDateRangeKeepAll(df, range_days, now) == df
FilterByDateRange(df, range_days, now) ==
    IF ~HasColumn(df, "timestamp") \/ DfEmpty(df)
    THEN df
    ELSE [df EXCEPT !.recs = { r \in @ : r.timestamp >= now - range_days }]

\* ExcelDataSource._filter_by_facility
FilterByFacilityKeepAll(df, facility_id) == df
FilterByFacility(df, facility_id) ==
    IF Truthy(facility_id) /\ HasColumn(df, "facility_id")
    THEN [df EXCEPT !.recs = { r \in @ : r.facility_id = facility_id }]
    ELSE df

\* df.fillna("")
FillNa(rows) ==
    [i \in DOMAIN rows |-> [j \in DOMAIN rows[i] |->
        IF rows[i][j] = NULL THEN S("") ELSE rows[i][j]]]

\* ExcelDataSource._format_result
ExcelFormatResultKeepColumns(df, metadata) ==
    [columns |-> df.columns,
     rows |-> FillNa(df.rows),
     metadata |-> [metadata EXCEPT !.source = "excel", !.rowCount = Len(df.rows)]]
ExcelFormatResult(df, metadata) ==
    IF df.columns = <<>> \/ df.rows = <<>>
    THEN [columns |-> <<>>,
          rows |-> <<>>,
          metadata |-> [metadata EXCEPT !.source = "excel", !.rowCount = 0]]
    ELSE [columns |-> df.columns,
          rows |-> FillNa(df.rows),
          metadata |-> [metadata EXCEPT !.source = "excel", !.rowCount = Len(df.rows)]]

\* the group keys of a groupby("facility_id"), ascending
FacilityKeys(recs) == SelectSeq(FacOrder, LAMBDA f : \E r \in recs : r.facility_id = f)

\* ExcelDataSource.get_errors_summary
ExcelErrorsSummary(data, req, now) ==
    LET df == FilterByFacility(FilterByDateRange(data["errors"], req.range_days, now),
                               req.facility_id)
        keys == FacilityKeys(df.recs)
        Row(f) == LET g == { r \in df.recs : r.facility_id = f }
                  IN <<S(f), N(Cardinality(g)),
                       N(Cardinality({ r \in g : r.severity = "critical" })),
                       N(Cardinality({ r.error_code : r \in g }))>>
    IN  IF DfEmpty(df)
        THEN {Returned(ExcelFormatResult(RawFrame(df), ReportMetadata(req)))}
        ELSE {Returned(ExcelFormatResult(
                 [columns |-> <<"facility_id", "error_count", "critical_count",
                                "unique_errors">>,
                  rows |-> [i \in DOMAIN keys |-> Row(keys[i])]],
                 ReportMetadata(req)))}

\* ExcelDataSource.get_top_error_messages.  The severity of a group is that
\* of its first row in the frame ("first"); rows with equal counts come in
\* any order (sort_values is not stable).  reset_index() has to insert the
\* group key error_code next to the aggregated column of the same name, which
\* pandas refuses with ValueError unless duplicates are allowed: both
\* outcomes are kept.
ExcelTopErrorMessages(data, req, now) ==
    LET df == FilterByFacility(FilterByDateRange(data["errors"], req.range_days, now),
                               req.facility_id)
        keys == { <<r.error_message, r.error_code>> : r \in df.recs }
        Group(k) == { r \in df.recs : r.error_message = k[1] /\ r.error_code = k[2] }
        Firsts == { c \in [keys -> Sevs] : \A k \in keys : c[k] \in { r.severity : r \in Group(k) } }
        RowSet(c) == { <<S(k[1]), S(k[2]), N(Cardinality(Group(k))), S(c[k])>> : k \in keys }
        Sorted == UNION { Orderings(RowSet(c), 3, TRUE) : c \in Firsts }
    IN  IF DfEmpty(df)
        THEN {Returned(ExcelFormatResult(RawFrame(df), ReportMetadata(req)))}
        ELSE { Returned(ExcelFormatResult(
                  [columns |-> <<"error_message", "error_code", "count", "severity">>,
                   rows |-> Take(o, req.limit)],
                  ReportMetadata(req))) : o \in Sorted }
             \cup {Raised("ValueError")}

\* ExcelDataSource.get_connectivity_summary
ExcelConnectivitySummary(data, req, now) ==
    LET df == FilterByFacility(FilterByDateRange(data["connectivity"], req.range_days, now),
                               req.facility_id)
        keys == FacilityKeys(df.recs)
        Row(f) == LET g == { r \in df.recs : r.facility_id = f }
                      c == Cardinality({ r \in g : r.connectivity_status = "connected" })
                  IN <<S(f), N(Cardinality(g)), N(c), D(Pct(c, Cardinality(g)))>>
    IN  IF DfEmpty(df)
        THEN {Returned(ExcelFormatResult(RawFrame(df), ReportMetadata(req)))}
        ELSE {Returned(ExcelFormatResult(
                 [columns |-> <<"facility_id", "total_events", "connected_count",
                                "connected_pct">>,
                  rows |-> [i \in DOMAIN keys |-> Row(keys[i])]],
                 ReportMetadata(req)))}

\* ExcelDataSource.get_disconnect_reasons (value_counts sorts by count, descending)
ExcelDisconnectReasons(data, req, now) ==
    LET df == FilterByFacility(FilterByDateRange(data["connectivity"], req.range_days, now),
                               req.facility_id)
        disconnected == { r \in df.recs : r.connectivity_status = "disconnected" }
        keys == { r.disconnect_reason : r \in disconnected }
        Cnt(k) == Cardinality({ r \in disconnected : r.disconnect_reason = k })
        rowset == { <<S(k), N(Cnt(k)), D(Pct(Cnt(k), Cardinality(disconnected)))>> : k \in keys }
    IN  IF DfEmpty(df) \/ disconnected = {}
        THEN {Returned(ExcelFormatResult(RawFrame(df), ReportMetadata(req)))}
        ELSE { Returned(ExcelFormatResult(
                  [columns |-> <<"disconnect_reason", "count", "percentage">>, rows |-> o],
                  ReportMetadata(req))) :
               o \in Orderings(rowset, 2, TRUE) }

\* the columns of the metadata frame other than facility_id, in order
MetaFields == SelectSeq(ALLOWED_TABLES["facility_metadata"], LAMBDA c : c # "facility_id")

\* ExcelDataSource.get_facility_summary.  The frames are indexed by
\* "facility_id" without a test for the column: KeyError on pd.DataFrame().
ExcelFacilitySummary(data, req, now) ==
    LET metadata_df == data["facility_metadata"]
        facility_meta == { r \in metadata_df.recs : r.facility_id = req.facility_id }
        m == CHOOSE r \in facility_meta : TRUE
        metaRows == [i \in DOMAIN MetaFields |-> <<S(MetaFields[i]), S(m[MetaFields[i]])>>]
        errors_df == FilterByDateRange(data["errors"], req.range_days, now)
        errors_filtered == { r \in errors_df.recs : r.facility_id = req.facility_id }
        errRows == IF errors_filtered = {} THEN <<>>
                   ELSE << <<S("errors_total"), N(Cardinality(errors_filtered))>>,
                           <<S("errors_critical"),
                             N(Cardinality({ r \in errors_filtered : r.severity = "critical" }))>> >>
        conn_df == FilterByDateRange(data["connectivity"], req.range_days, now)
        conn_filtered == { r \in conn_df.recs : r.facility_id = req.facility_id }
        connRows == IF conn_filtered = {} THEN <<>>
                    ELSE << <<S("connectivity_pct"),
                              D(Pct(Cardinality({ r \in conn_filtered :
                                                    r.connectivity_status = "connected" }),
                                    Cardinality(conn_filtered)))>> >>
        quality_df == FilterByDateRange(data["data_quality"], req.range_days, now)
        quality_filtered == { r \in quality_df.recs : r.facility_id = req.facility_id }
        qualRows == IF quality_filtered = {} THEN <<>>
                    ELSE << <<S("avg_data_quality_score"),
                              D(Mean2(quality_filtered, "data_quality_score"))>> >>
    IN  IF ~HasColumn(metadata_df, "facility_id") THEN {Raised("KeyError")}
        ELSE IF facility_meta = {}
        THEN {Returned(ExcelFormatResult([columns |-> <<>>, rows |-> <<>>], ReportMetadata(req)))}
        ELSE IF \/ ~HasColumn(errors_df, "facility_id")
                \/ ~HasColumn(conn_df, "facility_id")
                \/ ~HasColumn(quality_df, "facility_id")
        THEN {Raised("KeyError")}
        ELSE {Returned(ExcelFormatResult(
                 [columns |-> <<"metric", "value">>,
                  rows |-> metaRows \o errRows \o connRows \o qualRows],
                 ReportMetadata(req)))}

\* ExcelDataSource.get_data_quality_summary
ExcelDataQualitySummary(data, req, now) ==
    LET df == FilterByFacility(FilterByDateRange(data["data_quality"], req.range_days, now),
                               req.facility_id)
        keys == FacilityKeys(df.recs)
        Row(f) == LET g == { r \in df.recs : r.facility_id = f }
                  IN <<S(f), D(Mean2(g, "data_quality_score")),
                       N(SumField(g, "missing_records")), D(Mean2(g, "latency_ms"))>>
    IN  IF DfEmpty(df)
        THEN {Returned(ExcelFormatResult(RawFrame(df), ReportMetadata(req)))}
        ELSE {Returned(ExcelFormatResult(
                 [columns |-> <<"facility_id", "avg_quality_score", "total_missing_records",
                                "avg_latency_ms">>,
                  rows |-> [i \in DOMAIN keys |-> Row(keys[i])]],
                 ReportMetadata(req)))}

\* the outcomes a report operation of the File-Backed Source can have
ExcelReport(data, req, now) ==
    CASE req.report = "errors_summary" -> ExcelErrorsSummary(data, req, now)
      [] req.report = "top_error_messages" -> ExcelTopErrorMessages(data, req, now)
      [] req.report = "connectivity_summary" -> ExcelConnectivitySummary(data, req, now)
      [] req.report = "disconnect_reasons" -> ExcelDisconnectReasons(data, req, now)
      [] req.report = "facility_summary" -> ExcelFacilitySummary(data, req, now)
      [] OTHER -> ExcelDataQualitySummary(data, req, now)

(***************************************************************************)
(* The rows the queries of the Warehouse-Backed Source select from the     *)
(* stored records: the SQL of redshift_data_source.py, evaluated.  Each    *)
(* operator yields the row sequences the database may hand back: rows come *)
(* in any order unless the statement has an ORDER BY.                      *)
(***************************************************************************)
\* the statement has the condition "AND facility_id = %s"
HasFacilityFilter(q) == \E k \in DOMAIN q.text : q.text[k] = "AND facility_id ="

\* the rows of a table that the WHERE clause of a report query keeps:
\* params[1] is the cutoff, params[2] the facility id when there is one
Where(recs, q) ==
    { r \in recs :
        /\ r.timestamp >= q.params[1]
        /\ HasFacilityFilter(q) => r.facility_id = q.params[2] }

\* MAX(severity): the greatest string
MaxSeverity(recs) ==
    IF \E r \in recs : r.severity = "warning" THEN "warning" ELSE "critical"

\* get_errors_summary, lines 116-123
SqlErrorsSummary(q, st) ==
    LET recs == Where(st.errors, q)
        Row(f) == LET g == { r \in recs : r.facility_id = f }
                  IN <<S(f), N(Cardinality(g)),
                       N(Cardinality({ r \in g : r.severity = "critical" })),
                       N(Cardinality({ r.error_code : r \in g }))>>
    IN  Orderings({ Row(f) : f \in { r.facility_id : r \in recs } }, 1, FALSE)

\* get_top_error_messages, lines 168-177: the last parameter is the LIMIT
SqlTopErrorMessages(q, st) ==
    LET recs == Where(st.errors, q)
        keys == { <<r.error_message, r.error_code>> : r \in recs }
        Group(k) == { r \in recs : r.error_message = k[1] /\ r.error_code = k[2] }
        rowset == { <<S(k[1]), S(k[2]), N(Cardinality(Group(k))), S(MaxSeverity(Group(k)))>> :
                    k \in keys }
    IN  { Take(o, q.params[Len(q.params)]) : o \in Orderings(rowset, 3, TRUE) }

\* get_connectivity_summary, lines 225-232
SqlConnectivitySummary(q, st) ==
    LET recs == Where(st.connectivity, q)
        Row(f) == LET g == { r \in recs : r.facility_id = f }
                      c == Cardinality({ r \in g : r.connectivity_status = "connected" })
                  IN <<S(f), N(Cardinality(g)), N(c), D(Pct(c, Cardinality(g)))>>
    IN  Orderings({ Row(f) : f \in { r.facility_id : r \in recs } }, 1, FALSE)

\* get_disconnect_reasons, lines 277-286
SqlDisconnectReasons(q, st) ==
    LET recs == { r \in Where(st.connectivity, q) : r.connectivity_status = "disconnected" }
        Cnt(k) == Cardinality({ r \in recs : r.disconnect_reason = k })
        rowset == { <<S(k), N(Cnt(k)), D(Pct(Cnt(k), Cardinality(recs)))>> :
                    k \in { r.disconnect_reason : r \in recs } }
    IN  Orderings(rowset, 2, TRUE)

\* get_facility_summary, lines 328-347: one SELECT per metadata field, UNION ALL
SqlFacilityMeta(q, st) ==
    LET recs == { r \in st.facility_metadata : r.facility_id = q.params[1] }
        fields == <<"location", "opening_hours", "subscription_status", "units_deployed",
                    "usage_hours_30d", "strokes_tracked", "tournaments_hosted">>
        m == CHOOSE r \in recs : TRUE
    IN  IF recs = {} THEN {<<>>}
        ELSE {[i \in DOMAIN fields |-> <<S(fields[i]), S(m[fields[i]])>>]}

\* get_facility_summary, lines 361-371: two aggregates without GROUP BY, each
\* one row whatever the table holds; COUNT(*) of no rows is 0, SUM of no rows
\* is NULL; both are cast to VARCHAR
SqlFacilityErrors(q, st) ==
    LET recs == { r \in st.errors : r.facility_id = q.params[1] /\ r.timestamp >= q.params[2] }
        critical == Cardinality({ r \in recs : r.severity = "critical" })
    IN  {<< <<S("errors_total"), S(ToString(Cardinality(recs)))>>,
            <<S("errors_critical"), IF recs = {} THEN NULL ELSE S(ToString(critical))>> >>}

\* get_data_quality_summary, lines 401-408
SqlDataQuality(q, st) ==
    LET recs == Where(st.data_quality, q)
        Row(f) == LET g == { r \in recs : r.facility_id = f }
                  IN <<S(f), D(Mean2(g, "data_quality_score")),
                       N(SumField(g, "missing_records")), D(Mean2(g, "latency_ms"))>>
    IN  Orderings({ Row(f) : f \in { r.facility_id : r \in recs } }, 1, FALSE)

\* cur.execute(query, params); cur.fetchall() for the query of statement qi
SqlEval(req, qi, q, st) ==
    CASE req.report = "errors_summary" -> SqlErrorsSummary(q, st)
      [] req.report = "top_error_messages" -> SqlTopErrorMessages(q, st)
      [] req.report = "connectivity_summary" -> SqlConnectivitySummary(q, st)
      [] req.report = "disconnect_reasons" -> SqlDisconnectReasons(q, st)
      [] req.report = "data_quality_summary" -> SqlDataQuality(q, st)
      [] req.report = "facility_summary" /\ qi = 1 -> SqlFacilityMeta(q, st)
      [] OTHER -> SqlFacilityErrors(q, st)

\* the query results of a report operation whose queries all succeed, one per
\* query statement of Program(report), in order
QueryResults(req, now, st, schema) ==
    LET cutoff == now - req.range_days
        Q(qi) == BuildQuery(req, qi, cutoff, schema)
        Res(qi, rows) == [columns |-> Q(qi).columns, rows |-> rows]
    IN  IF req.report = "facility_summary"
        THEN { <<Res(1, r1), Res(2, r2)>> :
                 r1 \in SqlEval(req, 1, Q(1), st), r2 \in SqlEval(req, 2, Q(2), st) }
        ELSE { <<Res(1, r1)>> : r1 \in SqlEval(req, 1, Q(1), st) }

\* what a report operation of the Warehouse-Backed Source returns when its
\* connections and queries succeed
RedshiftAnswers(st, req, now, schema) ==
    { Returned(RedshiftFormatResult(Combined(qr), ReportMetadata(req))) :
        qr \in QueryResults(req, now, st, schema) }

\* the outcomes a report operation of the Warehouse-Backed Source can have:
\* its answer, or the error of a connection or of a query that failed
RedshiftReport(st, req, now, schema) ==
    RedshiftAnswers(st, req, now, schema)
      \cup {Raised("OperationalError"), Raised("DatabaseError")}

(***************************************************************************)
(* The report operations of the two sources, called on the same records.   *)
(***************************************************************************)
VARIABLES
    store,    \* the records of the warehouse tables
    xdata,    \* self._data of the File-Backed Source
    rq,       \* the request asked last and the time it was evaluated at
    xres,     \* what the File-Backed Source handed back for rq
    rres      \* what the Warehouse-Backed Source handed back for rq

rvars == <<store, xdata, rq, xres, rres>>

NoStore == [errors |-> {}, connectivity |-> {}, facility_metadata |-> {}, data_quality |-> {}]

NoAsk == [some |-> FALSE, req |-> NoRequest, now |-> 0]

NoOutcome == [status |-> "none", error |-> NONE]

\* self._data after the load of files that hold the records st in the sheets
\* present; the other sheets were in no file
Loaded(st, present) ==
    [sh \in Sheets |-> IF sh \in present THEN FrameOf(sh, st[sh]) ELSE NoFrame(sh)]

\* the sheets the files can hold
SheetSets == {Sheets, Sheets \ {"errors"}, {}}

\* the requests made of the sources directly
RepRequests == { r \in Requests : r.facility_id \in {NONE, "FAC001"} }

\* a report operation of the File-Backed Source is called.  The sources keep
\* nothing from one report call to the next, so one request is asked per run.
XReport(req, now) ==
    /\ ~rq.some
    /\ rq' = [some |-> TRUE, req |-> req, now |-> now]
    /\ xres' \in ExcelReport(xdata, req, now)
    /\ rres' = NoOutcome
    /\ UNCHANGED <<store, xdata>>

\* the same report operation of the Warehouse-Backed Source is called, at the
\* same time, and the database answers
RReport ==
    /\ rq.some /\ rres = NoOutcome
    /\ rres' \in RedshiftAnswers(store, rq.req, rq.now, wschema)
    /\ UNCHANGED <<store, xdata, rq, xres>>

(***************************************************************************)
(* Query Dispatcher (trackman_query_tool.py).                              *)
(*                                                                         *)
(* The text of an Answer is a sequence of lines; a line is held by what it *)
(* says: its kind, the string and the number it carries, and its cells.    *)
(***************************************************************************)
Line(kind, s, n, cells) == [kind |-> kind, s |-> s, n |-> n, cells |-> cells]

\* the first parameter of query_trackman: the six report names and others
Intents == Reports \cup {"errors", ""}

\* the requests made of query_trackman (facility_id is a str, "" by default)
DispRequests ==
    { r \in [report : Intents, range_days : RangeVals, facility_id : {"", "FAC001", "FAC002"},
             limit : LimitVals] :
        r.report # "top_error_messages" => r.limit = 10 }

\* line 65: intent in self.VALID_INTENTS
ValidIntentAny(intent) == TRUE
ValidIntent(intent) == intent \in Reports

\* lines 92-93: the report is facility_summary and facility_id is falsy
MissingFacilityNever(intent, facility_id) == FALSE
MissingFacility(intent, facility_id) == intent = "facility_summary" /\ ~Truthy(facility_id)

\* lines 115-118: except Exception: the error is logged and an Answer returned
OnQueryErrorRaise == "raise"
OnQueryError == "answer"

\* line 76: facility_filter = facility_id if facility_id else None
FacilityFilter(facility_id) == IF Truthy(facility_id) THEN facility_id ELSE NONE

\* the arguments the branch of an intent passes to the report operation
\* (lines 78-102): facility_summary gets facility_id, the others facility_filter
SourceRequest(req) ==
    [report |-> req.report, range_days |-> req.range_days, limit |-> req.limit,
     facility_id |-> IF req.report = "facility_summary" THEN req.facility_id
                     ELSE FacilityFilter(req.facility_id)]

\* TrackmanQueryTool._format_result, lines 123-163
FormatResultNoSource(result, intent) ==
    LET metadata == result.metadata
    IN  <<Line("title", intent, 0, <<>>),
          Line("results", "", metadata.rowCount, <<>>)>>
          \o <<Line("range", "", metadata.range_days, <<>>)>>
          \o <<Line("blank", "", 0, <<>>)>>
          \o <<Line("header", "", 0, [j \in DOMAIN result.columns |-> S(result.columns[j])]),
               Line("separator", "", Len(result.columns), <<>>)>>
          \o [i \in DOMAIN result.rows |-> Line("row", "", 0, result.rows[i])]
FormatResult(result, intent) ==
    LET metadata == result.metadata
        columns == result.columns
        rows == result.rows
    IN  IF rows = <<>>
        THEN <<Line("nodata", "No data found for the specified criteria.", 0, <<>>)>>
        ELSE <<Line("title", intent, 0, <<>>),
               Line("source", metadata.source, 0, <<>>),
               Line("results", "", metadata.rowCount, <<>>)>>
             \o (IF "range_days" \in DOMAIN metadata
                 THEN <<Line("range", "", metadata.range_days, <<>>)>> ELSE <<>>)
             \o (IF Truthy(metadata.facility_id)
                 THEN <<Line("facility", metadata.facility_id, 0, <<>>)>> ELSE <<>>)
             \o <<Line("blank", "", 0, <<>>)>>
             \o (IF columns # <<>> /\ rows # <<>>
                 THEN <<Line("header", "", 0, [j \in DOMAIN columns |-> S(columns[j])]),
                        Line("separator", "", Len(columns), <<>>)>>
                      \o [i \in DOMAIN rows |-> Line("row", "", 0, rows[i])]
                 ELSE <<>>)

VARIABLES
    dpc,      \* position in query_trackman ("idle": not in a call)
    dreq,     \* its arguments
    dsrc,     \* its local data_source
    dout,     \* what the report operation handed back
    dans,     \* the Answer of the call that completed last, or the exception it raised
    dlog      \* what the call has done: sources resolved, report operations called

dvars == <<dpc, dreq, dsrc, dout, dans, dlog>>

NoAnswer == [some |-> FALSE, raised |-> FALSE, text |-> <<>>]
NoLog == [resolved |-> 0, ops |-> 0, failed |-> NONE]

DispIdle ==
    /\ dpc = "idle"
    /\ dreq = NoRequest
    /\ dsrc = NoInst
    /\ dout = NoOutcome
    /\ dans = NoAnswer
    /\ dlog = NoLog

\* the thread query_trackman runs in
DT == 1

\* return Answer(question="", answer=text, source_documents=[])
DReturn(text) ==
    /\ dans' = [some |-> TRUE, raised |-> FALSE, text |-> text]
    /\ dpc' = "idle"

\* an exception reaches the except clause of line 115
DExcept(err) ==
    IF OnQueryError = "answer"
    THEN DReturn(<<Line("error", err, 0, <<>>)>>)
    ELSE /\ dans' = [some |-> TRUE, raised |-> TRUE, text |-> <<>>]
         /\ dpc' = "idle"

\* query_trackman is called
DCall(req) ==
    /\ dpc = "idle"
    /\ AllIdle
    /\ ncalls < MaxCalls
    /\ dpc' = "L65"
    /\ dreq' = req
    /\ dsrc' = NoInst
    /\ dout' = NoOutcome
    /\ dans' = NoAnswer
    /\ dlog' = NoLog

\* lines 65-70: the intent is validated
DCheckIntent ==
    /\ dpc = "L65"
    /\ IF ValidIntent(dreq.report)
       THEN /\ dpc' = "L73"
            /\ UNCHANGED dans
       ELSE DReturn(<<Line("invalid_intent", dreq.report, 0, <<>>)>>)
    /\ UNCHANGED <<dreq, dsrc, dout, dlog>>

\* line 73: get_data_source() is entered
DGetSource ==
    /\ dpc = "L73"
    /\ Call(DT)
    /\ dpc' = "L73r"
    /\ dlog' = [dlog EXCEPT !.resolved = @ + 1]
    /\ UNCHANGED <<dreq, dsrc, dout, dans>>

\* get_data_source() runs
DResolve ==
    /\ dpc = "L73r"
    /\ Step(DT)
    /\ UNCHANGED dvars

\* line 73: get_data_source() has returned or raised
DGotSource ==
    /\ dpc = "L73r" /\ pc[DT] = "idle"
    /\ IF last.raised
       THEN /\ DExcept("get_data_source")
            /\ dlog' = [dlog EXCEPT !.failed = "resolution"]
            /\ UNCHANGED dsrc
       ELSE /\ dsrc' = last.ret
            /\ dpc' = "L76"
            /\ UNCHANGED <<dans, dlog>>
    /\ UNCHANGED <<dreq, dout>>

\* self._data of a File-Backed Source
InstanceData(inst, data) == IF inst.data = "loaded" THEN data ELSE EmptyData

\* the outcomes of the report operation of a source
SourceReport(inst, req, now, data, st, schema) ==
    CASE inst.kind = "excel" -> ExcelReport(InstanceData(inst, data), req, now)
      [] inst.kind = "redshift" -> RedshiftReport(st, req, now, schema)
      [] OTHER -> {Raised("AttributeError")}

\* lines 76-102: the branch of the intent calls the report operation of the
\* source; an intent that no branch names leaves result unassigned
DDispatch ==
    /\ dpc = "L76"
    /\ IF MissingFacility(dreq.report, dreq.facility_id)
       THEN /\ DReturn(<<Line("requires_facility_id", dreq.report, 0, <<>>)>>)
            /\ UNCHANGED <<dout, dlog>>
       ELSE IF dreq.report \notin Reports
       THEN /\ DExcept("UnboundLocalError")
            /\ dlog' = [dlog EXCEPT !.failed = "rendering"]
            /\ UNCHANGED dout
       ELSE \E now \in NowVals :
              \E o \in SourceReport(dsrc, SourceRequest(dreq), now, xdata, store, wschema) :
                 IF o.status = "raised"
                 THEN /\ DExcept(o.error)
                      /\ dout' = o
                      /\ dlog' = [dlog EXCEPT !.ops = @ + 1, !.failed = "operation"]
                 ELSE /\ dout' = o
                      /\ dpc' = "L105"
                      /\ dlog' = [dlog EXCEPT !.ops = @ + 1]
                      /\ UNCHANGED dans
    /\ UNCHANGED <<dreq, dsrc>>

\* lines 105-113: the result is rendered and returned
DFormat ==
    /\ dpc = "L105"
    /\ DReturn(FormatResult(dout.result, dreq.report))
    /\ UNCHANGED <<dreq, dsrc, dout, dlog>>

(***************************************************************************)
(* A source constructed directly by a caller (as the tests do), not        *)
(* through get_data_source.                                                *)
(***************************************************************************)
VARIABLES
    ctor,     \* outcome of the construction made last
    ldir,     \* the data directory of the File-Backed Source
    lpc,      \* position of ExcelDataSource.__init__ / _load_data
    lidx,     \* index of the file loaded next
    lacc      \* sheet_dataframes: per sheet, the frames read so far

lvars == <<ldir, lpc, lidx, lacc>>

VARIABLES
    vcol      \* the call of validate_columns made last, with its result

cvars == <<ctor, lvars, vcol>>

\* get_allowed_columns
get_allowed_columns(table_name) ==
    IF table_name \in DOMAIN ALLOWED_TABLES THEN ALLOWED_TABLES[table_name] ELSE <<>>

MaxCols == 2

\* the column names callers ask about
ColumnNames ==
    UNION { Range(ALLOWED_TABLES[t]) : t \in DOMAIN ALLOWED_TABLES } \cup {"secret_column"}

NoCheck == [some |-> FALSE, table |-> NONE, columns |-> <<>>, result |-> FALSE]

\* validate_columns(table_name, columns) is called with a list of columns.
\* The function keeps nothing from one call to the next, so one call is
\* made per run.
ValidateColumns(table_name, columns) ==
    /\ ~vcol.some
    /\ vcol' = [some |-> TRUE, table |-> table_name, columns |-> columns,
             result |-> validate_columns(table_name, Range(columns))]

NoCtor == [some |-> FALSE, raised |-> FALSE, error |-> NONE, obj |-> "None",
           params |-> NoParams]

\* RedshiftDataSource(): the four parameters are read from the environment;
\* ValueError unless all of them are truthy.  The global of the factory is
\* not touched.
NewRedshift ==
    /\ ctor' = IF RedshiftInitOK(env)
               THEN [some |-> TRUE, raised |-> FALSE, error |-> NONE, obj |-> "redshift",
                     params |-> [v \in RequiredVars |-> env[v]]]
               ELSE [some |-> TRUE, raised |-> TRUE, error |-> "ValueError", obj |-> "None",
                     params |-> [v \in RequiredVars |-> env[v]]]

(***************************************************************************)
(* ExcelDataSource.__init__ and _load_data over a directory of files.      *)
(* A sheet of a file is the sequence of its rows (a row can occur twice);  *)
(* a loaded frame holds the set of rows that drop_duplicates leaves.       *)
(***************************************************************************)
MaxFiles == 2
MaxFileRows == 2

\* expected_sheets, in the order they are read
ExpectedSheets == <<"errors", "connectivity", "facility_metadata", "data_quality">>

\* the rows error sheets are written from
FileErrs == { r \in ErrRecs : r.timestamp = 99 /\ r.severity = "critical" /\ r.facility_id = "FAC001" }

\* the row a file holds in each of its other sheets, when it has them
RestRow(sheet) ==
    CASE sheet = "connectivity" ->
           [timestamp |-> 99, facility_id |-> "FAC001", connectivity_status |-> "connected",
            disconnect_reason |-> ""]
      [] sheet = "facility_metadata" -> MetaOf("FAC001")
      [] OTHER ->
           [timestamp |-> 99, facility_id |-> "FAC001", data_quality_score |-> 95,
            missing_records |-> 3, latency_ms |-> 120]

SeqsUpTo(set, n) == UNION { [1..k -> set] : k \in 0..n }

\* a file: the rows of its errors sheet, whether it has the three other
\* sheets, and where reading it fails: nowhere, when it is opened
\* (pd.ExcelFile), or when its connectivity sheet is read (pd.read_excel)
FileVals ==
    { f \in [errors : SeqsUpTo(FileErrs, MaxFileRows), rest : BOOLEAN,
              fail : {"none", "open", "connectivity"}] :
        f.fail = "connectivity" => f.rest }

\* excel_file.sheet_names
SheetNames(f) == IF f.rest THEN Sheets ELSE {"errors"}

\* the rows of a sheet of a file
SheetRows(f, sheet) ==
    IF sheet = "errors" THEN f.errors
    ELSE IF f.rest THEN <<RestRow(sheet)>> ELSE <<>>

\* the directory: absent, unreadable (listing it raises), or present with
\* its .xlsx / .xls files
DirVals ==
    {[state |-> "absent", files |-> <<>>], [state |-> "unreadable", files |-> <<>>]}
      \cup { [state |-> "present", files |-> fs] : fs \in SeqsUpTo(FileVals, MaxFiles) }

NoDir == [state |-> "absent", files |-> <<>>]

NoAcc == [sh \in Sheets |-> <<>>]

\* self._data = {}
NoData == [sh \in {} |-> NoFrame(sh)]

LoadIdle == ldir = NoDir /\ lpc = "idle" /\ lidx = 0 /\ lacc = NoAcc

\* what the except clause around _load_data does with an error: it logs it
\* and initializes empty data
OnLoadErrorRaise == "raise"
OnLoadError == "empty"

\* ExcelDataSource(data_dir): lines 33-38 up to the call of _load_data
XNew ==
    /\ lpc = "idle"
    /\ lpc' = "scan"
    /\ xdata' = NoData
    /\ UNCHANGED <<ldir, lidx, lacc>>

\* _load_data, lines 41-65: the directory is tested and listed
LScan ==
    /\ lpc = "scan"
    /\ IF ldir.state = "unreadable"
       THEN /\ lpc' = IF OnLoadError = "empty" THEN "done" ELSE "raised"
            /\ xdata' = IF OnLoadError = "empty" THEN EmptyData ELSE xdata
            /\ UNCHANGED <<lidx, lacc>>
       ELSE IF ldir.state = "absent" \/ ldir.files = <<>>
       THEN /\ lpc' = "done"
            /\ xdata' = EmptyData
            /\ UNCHANGED <<lidx, lacc>>
       ELSE /\ lpc' = "files"
            /\ lidx' = 1
            /\ lacc' = NoAcc
            /\ UNCHANGED xdata
    /\ UNCHANGED ldir

\* the sheets of f that are read and appended before reading f fails
SheetsRead(f) ==
    CASE f.fail = "open" -> {}
      [] f.fail = "connectivity" -> {"errors"}
      [] OTHER -> SheetNames(f)

\* lines 68-85: one file is loaded; an error is logged and the loop goes on
\* with the next file
LFile ==
    /\ lpc = "files" /\ lidx <= Len(ldir.files)
    /\ LET f == ldir.files[lidx]
       IN lacc' = [sh \in Sheets |->
                     IF sh \in SheetsRead(f) THEN Append(lacc[sh], SheetRows(f, sh))
                     ELSE lacc[sh]]
    /\ lidx' = lidx + 1
    /\ UNCHANGED <<ldir, lpc, xdata>>

\* pd.concat(dfs, ignore_index=True).drop_duplicates()
MergedFirst(dfs) == Range(dfs[1])
Merged(dfs) == UNION { Range(dfs[i]) : i \in DOMAIN dfs }

\* lines 87-101: the frames of each sheet are merged
LMerge ==
    /\ lpc = "files" /\ lidx > Len(ldir.files)
    /\ xdata' = [sh \in Sheets |->
                   IF lacc[sh] # <<>> THEN FrameOf(sh, Merged(lacc[sh])) ELSE NoFrame(sh)]
    /\ lpc' = "done"
    /\ UNCHANGED <<ldir, lidx, lacc>>

\* the variables added to those of the factory and of the warehouse operations
ovars == <<cvars, rvars, dvars>>

\* no direct construction made and no report asked yet
NoneAsked ==
    /\ ctor = NoCtor
    /\ LoadIdle
    /\ vcol = NoCheck
    /\ rq = NoAsk
    /\ xres = NoOutcome
    /\ rres = NoOutcome

OtherIdle ==
    /\ NoneAsked
    /\ store = NoStore
    /\ xdata = EmptyData
    /\ DispIdle

vars == <<fvars, wvars, ovars>>

Init ==
    /\ FactoryInit
    /\ wschema = "public"
    /\ WhIdle
    /\ OtherIdle

(***************************************************************************)
(* Spec: any number of threads inside get_data_source at once, resets and  *)
(* environment changes at any moment.                                      *)
(***************************************************************************)
Next ==
    \/ \E t \in Threads : Call(t) /\ UNCHANGED <<wvars, ovars>>
    \/ \E t \in Threads : Step(t) /\ UNCHANGED <<wvars, ovars>>
    \/ Reset /\ UNCHANGED <<wvars, ovars>>
    \/ SetEnv /\ UNCHANGED <<wvars, ovars>>

Spec == Init /\ [][Next]_vars

(***************************************************************************)
(* SpecSeq: calls are made one after another, and a reset happens between  *)
(* calls; the environment may still change at any moment.                  *)
(***************************************************************************)
SeqCall(t) == AllIdle /\ Call(t)

SeqReset == AllIdle /\ Reset

NextSeq ==
    \/ \E t \in Threads : SeqCall(t) /\ UNCHANGED <<wvars, ovars>>
    \/ \E t \in Threads : Step(t) /\ UNCHANGED <<wvars, ovars>>
    \/ SeqReset /\ UNCHANGED <<wvars, ovars>>
    \/ SetEnv /\ UNCHANGED <<wvars, ovars>>

SpecSeq == Init /\ [][NextSeq]_vars

(***************************************************************************)
(* SpecWh: the report operations of one Warehouse-Backed Source, called    *)
(* one after another.  The source was constructed from an environment      *)
(* that holds the four parameters; its schema is REDSHIFT_SCHEMA.          *)
(***************************************************************************)
InitWh ==
    /\ env = [v \in EnvVars |-> IF v = "USE_REDSHIFT" THEN "true" ELSE "x"]
    /\ cache = [id |-> 1, kind |-> "redshift", data |-> "none"]
    /\ nextId = 2
    /\ pc = [t \in Threads |-> "idle"]
    /\ cur = [t \in Threads |-> NoObs]
    /\ last = NoCall
    /\ ncalls = 0
    /\ resets = 0
    /\ envChanges = 0
    /\ epoch = NewEpoch
    /\ wschema \in Schemas
    /\ WhIdle
    /\ OtherIdle

NextWh ==
    \/ \E req \in Requests : WCall(req) /\ UNCHANGED <<fvars, ovars>>
    \/ WValidate /\ UNCHANGED <<fvars, ovars>>
    \/ WCutoff /\ UNCHANGED <<fvars, ovars>>
    \/ WConnect /\ UNCHANGED <<fvars, ovars>>
    \/ WExecute /\ UNCHANGED <<fvars, ovars>>
    \/ WFinally /\ UNCHANGED <<fvars, ovars>>
    \/ WFormat /\ UNCHANGED <<fvars, ovars>>
    \/ \E name \in TableNames : WValidateAccess(name) /\ UNCHANGED <<fvars, ovars>>

SpecWh == InitWh /\ [][NextWh]_vars

(***************************************************************************)
(* SpecNew: sources constructed directly, in any environment.              *)
(***************************************************************************)
InitNew ==
    /\ env \in Envs
    /\ cache = NoInst
    /\ nextId = 1
    /\ pc = [t \in Threads |-> "idle"]
    /\ cur = [t \in Threads |-> NoObs]
    /\ last = NoCall
    /\ ncalls = 0
    /\ resets = 0
    /\ envChanges = 0
    /\ epoch = NewEpoch
    /\ wschema = "public"
    /\ WhIdle
    /\ OtherIdle

NextNew ==
    \/ NewRedshift /\ UNCHANGED <<fvars, wvars, lvars, vcol, rvars, dvars>>

SpecNew == InitNew /\ [][NextNew]_vars

(***************************************************************************)
(* SpecRep: a File-Backed Source and a Warehouse-Backed Source that hold   *)
(* the same records are asked the same report at the same time.            *)
(***************************************************************************)
InitRep ==
    /\ env = [v \in EnvVars |-> IF v = "USE_REDSHIFT" THEN "true" ELSE "x"]
    /\ cache = NoInst
    /\ nextId = 1
    /\ pc = [t \in Threads |-> "idle"]
    /\ cur = [t \in Threads |-> NoObs]
    /\ last = NoCall
    /\ ncalls = 0
    /\ resets = 0
    /\ envChanges = 0
    /\ epoch = NewEpoch
    /\ wschema = "public"
    /\ WhIdle
    /\ NoneAsked
    /\ DispIdle
    /\ store \in Stores
    /\ \E present \in SheetSets :
          /\ \A sh \in Sheets \ present : store[sh] = {}
          /\ xdata = Loaded(store, present)

NextRep ==
    \/ \E req \in RepRequests : \E now \in NowVals :
          XReport(req, now) /\ UNCHANGED <<fvars, wvars, cvars, dvars>>
    \/ RReport /\ UNCHANGED <<fvars, wvars, cvars, dvars>>

SpecRep == InitRep /\ [][NextRep]_vars

\* ---------------------------------------------------------------------
\* The two reports on error events, asked of both sources over stores
\* that hold error events only
\* ---------------------------------------------------------------------
MaxErrs == 3

ErrStores == { [NoStore EXCEPT !.errors = e] : e \in UpTo(ErrRecs, MaxErrs) }

ErrRequests == { r \in RepRequests : r.report \in {"errors_summary", "top_error_messages"} }

InitErr ==
    /\ env = [v \in EnvVars |-> IF v = "USE_REDSHIFT" THEN "true" ELSE "x"]
    /\ cache = NoInst
    /\ nextId = 1
    /\ pc = [t \in Threads |-> "idle"]
    /\ cur = [t \in Threads |-> NoObs]
    /\ last = NoCall
    /\ ncalls = 0
    /\ resets = 0
    /\ envChanges = 0
    /\ epoch = NewEpoch
    /\ wschema = "public"
    /\ WhIdle
    /\ NoneAsked
    /\ DispIdle
    /\ store \in ErrStores
    /\ xdata = Loaded(store, Sheets)

NextErr ==
    \/ \E req \in ErrRequests : \E now \in NowVals :
          XReport(req, now) /\ UNCHANGED <<fvars, wvars, cvars, dvars>>
    \/ RReport /\ UNCHANGED <<fvars, wvars, cvars, dvars>>

SpecErr == InitErr /\ [][NextErr]_vars

\* ---------------------------------------------------------------------
\* The File-Backed Source constructed over a directory
\* ---------------------------------------------------------------------
InitLoad ==
    /\ env = [v \in EnvVars |-> "x"]
    /\ cache = NoInst
    /\ nextId = 1
    /\ pc = [t \in Threads |-> "idle"]
    /\ cur = [t \in Threads |-> NoObs]
    /\ last = NoCall
    /\ ncalls = 0
    /\ resets = 0
    /\ envChanges = 0
    /\ epoch = NewEpoch
    /\ wschema = "public"
    /\ WhIdle
    /\ ctor = NoCtor /\ vcol = NoCheck
    /\ rq = NoAsk /\ xres = NoOutcome /\ rres = NoOutcome
    /\ DispIdle
    /\ store = NoStore
    /\ xdata = NoData
    /\ ldir \in DirVals
    /\ lpc = "idle" /\ lidx = 0 /\ lacc = NoAcc

NextLoad ==
    \/ XNew /\ UNCHANGED <<fvars, wvars, dvars, ctor, vcol, store, rq, xres, rres>>
    \/ LScan /\ UNCHANGED <<fvars, wvars, dvars, ctor, vcol, store, rq, xres, rres>>
    \/ LFile /\ UNCHANGED <<fvars, wvars, dvars, ctor, vcol, store, rq, xres, rres>>
    \/ LMerge /\ UNCHANGED <<fvars, wvars, dvars, ctor, vcol, store, rq, xres, rres>>

SpecLoad == InitLoad /\ [][NextLoad]_vars

\* ---------------------------------------------------------------------
\* The allowlist asked about the columns of a table
\* ---------------------------------------------------------------------
InitAllow == InitWh

NextAllow ==
    \/ /\ ~vcol.some
       /\ \E t \in TableNames : \E cols \in SeqsUpTo(ColumnNames, MaxCols) :
             ValidateColumns(t, cols) /\ UNCHANGED <<fvars, wvars, ctor, lvars, rvars, dvars>>

SpecAllow == InitAllow /\ [][NextAllow]_vars

(***************************************************************************)
(* SpecDisp: query_trackman called again and again, in a process whose     *)
(* environment selects either source, over a store that is empty or holds  *)
(* the records of one facility.                                            *)
(***************************************************************************)
SampleStore ==
    [errors |-> {[timestamp |-> 99, facility_id |-> "FAC001", severity |-> "critical",
                  error_code |-> "E001", error_message |-> "Error message 1"]},
     connectivity |-> {[timestamp |-> 99, facility_id |-> "FAC001",
                        connectivity_status |-> "disconnected",
                        disconnect_reason |-> "power_loss"]},
     facility_metadata |-> {MetaOf("FAC001")},
     data_quality |-> {[timestamp |-> 99, facility_id |-> "FAC001", data_quality_score |-> 95,
                        missing_records |-> 3, latency_ms |-> 120]}]

DispStores == {NoStore, SampleStore}

InitDisp ==
    /\ FactoryInit
    /\ wschema = "public"
    /\ WhIdle
    /\ NoneAsked
    /\ DispIdle
    /\ store \in DispStores
    /\ xdata = Loaded(store, Sheets)

NextDisp ==
    \/ \E req \in DispRequests : DCall(req) /\ UNCHANGED <<fvars, wvars, cvars, rvars>>
    \/ DCheckIntent /\ UNCHANGED <<fvars, wvars, cvars, rvars>>
    \/ DGetSource /\ UNCHANGED <<wvars, cvars, rvars>>
    \/ DResolve /\ UNCHANGED <<wvars, cvars, rvars>>
    \/ DGotSource /\ UNCHANGED <<fvars, wvars, cvars, rvars>>
    \/ DDispatch /\ UNCHANGED <<fvars, wvars, cvars, rvars>>
    \/ DFormat /\ UNCHANGED <<fvars, wvars, cvars, rvars>>

SpecDisp == InitDisp /\ [][NextDisp]_vars

(***************************************************************************)
(* Claims about the Source Selector.  They are stated of the call that     *)
(* completed last: every call is that call in the state it completes in.   *)
(***************************************************************************)
\* a call has completed since the last reset
Completed == last.some /\ last.obs.ep = resets

\* the configuration a claim calls "warehouse selected": flag set, four parameters present
FlagSet(f) == f \in {"true", "TRUE"}
AllPresent(p) == \A v \in RequiredVars : p[v] \notin {NONE, ""}
ExpectedKind(e) == IF FlagSet(e["USE_REDSHIFT"]) /\ AllPresent(e) THEN "redshift" ELSE "excel"

\* C1: every get_data_source call, whatever the flag, the four parameters and
\* the file directory are (a set flag with parameters missing and a warehouse
\* construction that raises included), returns a source instance (File-Backed
\* or Warehouse-Backed) and does not raise to its caller.
C1_NeverFails ==
    last.some =>
        /\ ~last.raised
        /\ last.ret # NoInst
        /\ last.ret.kind \in {"excel", "redshift"}

\* a call whose warehouse construction raised has returned a File-Backed Source
C1_Witness ==
    /\ last.some /\ last.obs.ctorRaised
    /\ ~last.raised /\ last.ret.kind = "excel"

\* C2: a call that resolves selects the Warehouse-Backed Source exactly when
\* the flag it read is set, the four parameters it read are present and
\* non-empty, and the warehouse construction did not raise; in every other
\* case it selects the File-Backed Source.
C2_Selection ==
    (last.some /\ last.obs.resolved) =>
        /\ last.ret.kind = "redshift" <=>
              /\ FlagSet(last.obs.flag)
              /\ AllPresent(last.obs.params)
              /\ ~last.obs.ctorRaised
        /\ last.ret.kind # "redshift" => last.ret.kind = "excel"

\* a resolving call has selected the Warehouse-Backed Source
C2_Witness ==
    last.some /\ last.obs.resolved /\ last.ret.kind = "redshift"

\* C3: with calls made one after another and no reset in between, every call
\* returns the instance the first call returned, only the first call runs the
\* resolution, and a change of the configuration after the first call does not
\* change the instance returned.
C3_Singleton ==
    /\ epoch.constructions <= 1
    /\ Cardinality(epoch.returned) <= 1
    /\ Completed =>
          /\ last.ret = epoch.first
          /\ last.obs.resolved <=> (last.obs.seq = 1)

\* a later call has returned the first call's instance although the
\* configuration now in force selects the other source type
C3_Witness ==
    /\ Completed /\ last.obs.seq >= 2
    /\ last.ret = epoch.first /\ last.ret # NoInst
    /\ ExpectedKind(env) # last.ret.kind

\* C4: between two resets the resolution (the construction of a source) is
\* performed at most once, also when several callers enter get_data_source
\* while nothing is cached.
C4_ResolveOnce == resets = 0 => epoch.constructions <= 1

\* C5: between two resets every caller receives the same instance, also the
\* callers that entered get_data_source while nothing was cached.
C5_SameInstance == resets = 0 => Cardinality(epoch.returned) <= 1

\* C6: after reset_data_source nothing is cached, and the next call runs the
\* resolution again, against the configuration then in force, so that the
\* other source type can be selected.
C6_ResetReresolves ==
    /\ (resets > 0 /\ epoch.begun = 0) => cache = NoInst
    /\ (Completed /\ resets > 0 /\ last.obs.seq = 1) =>
          /\ last.obs.resolved
          /\ epoch.constructions = 1
          /\ envChanges = last.obs.ec => last.ret.kind = ExpectedKind(env)

\* the first call after a reset has selected a source type other than the one
\* cached before the reset
C6_Witness ==
    /\ Completed /\ resets > 0 /\ last.obs.seq = 1
    /\ epoch.prevKind \in {"excel", "redshift"}
    /\ last.ret.kind \in {"excel", "redshift"}
    /\ last.ret.kind # epoch.prevKind

(***************************************************************************)
(* Claims about the Warehouse-Backed Source.                               *)
(***************************************************************************)
Touches(i) == wlog[i].ev \in {"connect", "execute"}

\* C7: in every report operation a table is validated against the allowlist
\* before a connection is opened for, or a query executed against, that
\* table; when a validation fails the call raises ValueError, and it opens no
\* connection and executes no query.
C7_ValidateFirst ==
    /\ \A i \in DOMAIN wlog :
          Touches(i) =>
              \E j \in 1..(i - 1) :
                  /\ wlog[j].ev = "validate"
                  /\ wlog[j].table = wlog[i].table
                  /\ wlog[j].ok
    /\ \A j \in DOMAIN wlog :
          (wlog[j].ev = "validate" /\ ~wlog[j].ok) =>
              /\ wres = [status |-> "raised", error |-> "ValueError"]
              /\ \A i \in DOMAIN wlog : ~Touches(i)
              /\ wopen = 0

\* facility_summary has executed its second query, on the second table
C7_Witness ==
    /\ wreq.report = "facility_summary"
    /\ \E i \in DOMAIN wlog :
          wlog[i].ev = "execute" /\ wlog[i].qi = 2 /\ wlog[i].table = "errors"

\* C8: every query the Warehouse-Backed Source executes, in any report
\* operation, names only a table of the allowlist and only columns of that
\* table's allowed column set.
C8_AllowlistedOnly ==
    \A i \in DOMAIN wlog :
        wlog[i].ev = "execute" =>
            /\ wlog[i].q.table \in DOMAIN ALLOWED_TABLES
            /\ wlog[i].q.cols \subseteq Range(ALLOWED_TABLES[wlog[i].q.table])

\* a query on facility_metadata and one on errors have been executed in one call
C8_Witness ==
    /\ \E i \in DOMAIN wlog : wlog[i].ev = "execute" /\ wlog[i].q.table = "facility_metadata"
    /\ \E i \in DOMAIN wlog : wlog[i].ev = "execute" /\ wlog[i].q.table = "errors"
    /\ wres.status = "returned"

Placeholders(text) == Cardinality({ k \in DOMAIN text : text[k] = "%s" })

\* C9: facility_id, the date cutoff and limit reach the database as bound
\* parameters: each executed text has one placeholder per parameter and does
\* not hold the facility id, and two requests of the same report type that
\* both have, or both lack, a facility filter execute the same text whatever
\* these values are.
C9_BoundParameters ==
    /\ \A i \in DOMAIN wlog :
          wlog[i].ev = "execute" =>
              /\ Placeholders(wlog[i].q.text) = Len(wlog[i].q.params)
              /\ Truthy(wreq.facility_id) =>
                    \A k \in DOMAIN wlog[i].q.text : wlog[i].q.text[k] # wreq.facility_id
    /\ \A a \in Executed(wreq, wlog) : \A b \in wprev :
          (a.report = b.report /\ a.qi = b.qi /\ a.filtered = b.filtered) =>
              a.text = b.text

\* two consecutive top_error_messages requests with a facility filter and
\* different facility ids have executed the same text
C9_Witness ==
    \E a \in Executed(wreq, wlog) : \E b \in wprev :
        /\ a.report = "top_error_messages" /\ b.report = a.report
        /\ a.filtered /\ b.filtered
        /\ a.facility_id # b.facility_id
        /\ a.text = b.text

Count(ev) == Cardinality({ i \in DOMAIN wlog : wlog[i].ev = ev /\ wlog[i].ok })

\* C10: a connection is open only inside _execute_query; when a report
\* operation has returned or raised, every connection it opened has been
\* closed, whether the query succeeded, failed or returned no rows.
C10_ConnectionsClosed ==
    /\ wopen > 0 => (wpc = "run" /\ wsub \in {"execute", "finally"})
    /\ wpc = "idle" => (wopen = 0 /\ Count("connect") = Count("close"))

\* a report operation whose query failed has raised, its connection closed
C10_Witness ==
    /\ wpc = "idle"
    /\ wres = [status |-> "raised", error |-> "DatabaseError"]
    /\ Count("connect") >= 1
    /\ Count("close") = Count("connect")

\* the connections this call has acquired
Acquired == { i \in DOMAIN wlog : wlog[i].ev = "connect" /\ wlog[i].ok }

\* C11: a report operation that returns has acquired exactly one connection,
\* and every query it executed ran inside that connection: no connection is
\* closed and another one opened between two of its queries.
C11_SingleConnection ==
    (wpc = "idle" /\ wreq # NoRequest /\ wres.status = "returned") =>
        /\ Cardinality(Acquired) = 1
        /\ \A i \in DOMAIN wlog : \A j \in DOMAIN wlog :
              (wlog[i].ev = "execute" /\ wlog[j].ev = "execute" /\ i < j) =>
                  \A k \in i..j : wlog[k].ev # "close"

(***************************************************************************)
(* Claims about sources constructed directly.                              *)
(***************************************************************************)
\* C12: constructing the Warehouse-Backed Source when host, database, user or
\* password is missing or empty raises a construction error (ValueError): no
\* source object is produced, no File-Backed Source takes its place, and the
\* factory's cached instance is left alone; with all four present the
\* construction yields a Warehouse-Backed Source.
C12_HardFailure ==
    ctor.some =>
        /\ (\E v \in RequiredVars : ctor.params[v] \in {NONE, ""}) =>
              /\ ctor.raised /\ ctor.error = "ValueError"
              /\ ctor.obj = "None"
        /\ AllPresent(ctor.params) => (~ctor.raised /\ ctor.obj = "redshift")
        /\ cache = NoInst

\* a construction with only the password empty has raised
C12_Witness ==
    /\ ctor.some /\ ctor.raised /\ ctor.obj = "None"
    /\ ctor.params["REDSHIFT_PASSWORD"] = ""
    /\ \A v \in RequiredVars \ {"REDSHIFT_PASSWORD"} : ctor.params[v] = "x"

(***************************************************************************)
(* Claims about the Query Dispatcher.  dans, dout and dlog are those of    *)
(* the call with the arguments dreq: they are cleared when a call begins.  *)
(***************************************************************************)
\* C13: for a report name outside the six names, query_trackman returns an
\* Answer whose text names the invalid report; it raises nothing, and it
\* neither resolves the data source nor calls a report operation.
C13_InvalidIntent ==
    (dpc # "idle" \/ dans.some) /\ dreq.report \notin Reports =>
        /\ dlog.resolved = 0 /\ dlog.ops = 0
        /\ pc[DT] = "idle"
        /\ dans.some =>
              /\ ~dans.raised
              /\ dans.text = <<Line("invalid_intent", dreq.report, 0, <<>>)>>

\* the intent "errors" (a table name, not a report name) has been answered
\* in a process that has resolved no source
C13_Witness ==
    /\ dans.some /\ dreq.report = "errors"
    /\ dans.text[1].s = "errors"
    /\ cache = NoInst

\* C14: for facility_summary without a facility_id, query_trackman returns an
\* Answer that says the report requires a facility_id, and it calls no
\* report operation of the source.
C14_FacilityRequired ==
    (dpc # "idle" \/ dans.some)
      /\ dreq.report = "facility_summary" /\ dreq.facility_id = "" =>
        /\ dlog.ops = 0
        /\ dans.some =>
              /\ ~dans.raised
              /\ dans.text = <<Line("requires_facility_id", "facility_summary", 0, <<>>)>>

\* facility_summary without a facility_id has been answered, the source resolved
C14_Witness ==
    /\ dans.some /\ dreq.report = "facility_summary" /\ dreq.facility_id = ""
    /\ dlog.resolved = 1 /\ dsrc # NoInst
    /\ dans.text[1].kind = "requires_facility_id"

\* C15: query_trackman never raises; when the source resolution, the report
\* operation or the rendering has raised, the caller receives an Answer
\* whose text is the error text.
C15_NeverRaises ==
    dans.some =>
        /\ ~dans.raised
        /\ dlog.failed # NONE =>
              /\ Len(dans.text) = 1
              /\ dans.text[1].kind = "error"
              /\ dlog.failed = "operation" => dans.text[1].s = dout.error

\* the report operation of the Warehouse-Backed Source has raised a database
\* error, and the caller has received the error text
C15_Witness ==
    /\ dans.some /\ ~dans.raised
    /\ dsrc.kind = "redshift"
    /\ dlog.failed = "operation" /\ dout = Raised("DatabaseError")
    /\ dans.text = <<Line("error", "DatabaseError", 0, <<>>)>>

\* the text has the lines of a table for the result, at its end
HasTable(text, result) ==
    \E k \in DOMAIN text :
        /\ text[k] = Line("header", "", 0,
                          [j \in DOMAIN result.columns |-> S(result.columns[j])])
        /\ Len(text) = k + 1 + Len(result.rows)
        /\ text[k + 1] = Line("separator", "", Len(result.columns), <<>>)
        /\ \A i \in DOMAIN result.rows : text[k + 1 + i] = Line("row", "", 0, result.rows[i])

\* the text has the title, the summary lines and the table of the result
IsReport(text, req, result) ==
    /\ Len(text) >= 1 /\ text[1] = Line("title", req.report, 0, <<>>)
    /\ \E i \in DOMAIN text : text[i] = Line("source", result.metadata.source, 0, <<>>)
    /\ \E i \in DOMAIN text : text[i] = Line("results", "", Len(result.rows), <<>>)
    /\ \E i \in DOMAIN text : text[i] = Line("range", "", req.range_days, <<>>)
    /\ Truthy(req.facility_id) =>
          \E i \in DOMAIN text : text[i] = Line("facility", req.facility_id, 0, <<>>)
    /\ HasTable(text, result)

\* a valid request that the source has answered without raising, rendered
Rendered == dans.some /\ dout.status = "returned"

\* C16 (as claimed): for every valid request that the source answers without
\* raising, whatever the row count, the rendered text has the title line
\* naming the report, the source, the row count, the day range, the facility
\* filter when one was applied, and then the table of columns and rows.
C16_RenderedReport ==
    Rendered => IsReport(dans.text, dreq, dout.result)

\* C16 (amended): when the result has at least one row the rendered text has
\* the title line naming the report, the source, the row count, the day
\* range, the facility filter when one was applied, and then the table of
\* columns and rows; when the result has no row the text is the one line
\* "No data found for the specified criteria.".
C16_RenderedNonEmpty ==
    Rendered =>
        IF dout.result.rows # <<>>
        THEN IsReport(dans.text, dreq, dout.result)
        ELSE dans.text = <<Line("nodata", "No data found for the specified criteria.", 0, <<>>)>>

\* a result with rows and a facility filter has been rendered
C16_Witness ==
    /\ Rendered /\ Len(dout.result.rows) >= 1
    /\ dreq.facility_id = "FAC001" /\ dreq.report = "errors_summary"
    /\ dans.text[5] = Line("facility", "FAC001", 0, <<>>)
    /\ dans.text[Len(dans.text)].kind = "row"

\* ---------------------------------------------------------------------
\* The results of the two sources
\* ---------------------------------------------------------------------

\* every row is as wide as the columns, and there is no row exactly when
\* rowCount is 0
WellShaped(result) ==
    /\ \A i \in 1..Len(result.rows) : Len(result.rows[i]) = Len(result.columns)
    /\ (result.rows = <<>>) <=> (result.metadata.rowCount = 0)

\* C17: for every report operation of both sources and every request, every
\* row of the returned result is as long as its columns, and rows is empty
\* exactly when metadata.rowCount is 0.
C17_WellShaped ==
    /\ xres.status = "returned" => WellShaped(xres.result)
    /\ rres.status = "returned" => WellShaped(rres.result)

\* both sources answered facility_summary with rows, the Warehouse-Backed one
\* with the rows of its two queries put together
C17_Witness ==
    /\ rq.some /\ rq.req.report = "facility_summary"
    /\ xres.status = "returned" /\ Len(xres.result.rows) >= 8
    /\ rres.status = "returned" /\ Len(rres.result.rows) = 9
    /\ rres.result.metadata.rowCount = 9

\* how many times the row r occurs in rows
Occurrences(rows, r) == Cardinality({ i \in 1..Len(rows) : rows[i] = r })

\* the same rows, whatever their order
SameRows(a, b) ==
    /\ Len(a) = Len(b)
    /\ \A i \in 1..Len(a) : Occurrences(a, a[i]) = Occurrences(b, a[i])

\* C18: for the same stored records, the same evaluation time and the same
\* request, a report operation returns the same column names and the same
\* row values from the File-Backed Source and from the Warehouse-Backed
\* Source, up to row order, also when no record matches.
C18_SameAnswer ==
    (rq.some /\ rres.status # "none") =>
        /\ xres.status = "returned"
        /\ rres.status = "returned"
        /\ xres.result.columns = rres.result.columns
        /\ SameRows(xres.result.rows, rres.result.rows)

\* the result has no row and rowCount 0
NoRows(outcome) ==
    /\ outcome.status = "returned"
    /\ outcome.result.rows = <<>>
    /\ outcome.result.metadata.rowCount = 0

\* the facility asked for has no row in facility_metadata
UnknownFacility ==
    /\ rq.some /\ rq.req.report = "facility_summary"
    /\ ~\E m \in store.facility_metadata : m.facility_id = rq.req.facility_id

\* C19: facility_summary for a facility_id that has no metadata row returns
\* rowCount 0 and no rows and raises no error, from both sources and whatever
\* the stored datasets hold, datasets with no rows at all included.
C19_UnknownFacility ==
    UnknownFacility =>
        /\ NoRows(xres)
        /\ rres.status # "none" => NoRows(rres)

\* the sheet a report operation of the File-Backed Source reads first
SheetOf(report) ==
    CASE report \in {"errors_summary", "top_error_messages"} -> "errors"
      [] report \in {"connectivity_summary", "disconnect_reasons"} -> "connectivity"
      [] report = "facility_summary" -> "facility_metadata"
      [] OTHER -> "data_quality"

\* the records of that sheet the request selects
Filtered(data, req, now) ==
    IF req.report = "facility_summary"
    THEN { r \in data["facility_metadata"].recs : r.facility_id = req.facility_id }
    ELSE FilterByFacility(FilterByDateRange(data[SheetOf(req.report)], req.range_days, now),
                          req.facility_id).recs

\* C20: for each report operation of the File-Backed Source, when the
\* filtered dataset has no rows the call raises no error and returns empty
\* columns, empty rows, rowCount 0 and metadata that carries the request's
\* range_days and facility_id.
C20_EmptyInput ==
    (rq.some /\ Filtered(xdata, rq.req, rq.now) = {}) =>
        /\ NoRows(xres)
        /\ xres.result.columns = <<>>
        /\ xres.result.metadata.range_days = rq.req.range_days
        /\ xres.result.metadata.facility_id = rq.req.facility_id

\* the position of the column facility_id among the columns, 0 when absent
FacilityColumn(columns) ==
    IF \E i \in DOMAIN columns : columns[i] = "facility_id"
    THEN CHOOSE i \in DOMAIN columns : columns[i] = "facility_id"
    ELSE 0

\* every value of the facility_id column of the result is facility_id
OnlyFacility(result, facility_id) ==
    LET c == FacilityColumn(result.columns)
    IN  c # 0 => \A i \in DOMAIN result.rows : result.rows[i][c] = S(facility_id)

\* C21: for every request with facility_id set, every value in the
\* facility_id column of the returned rows equals the requested id, whenever
\* the result has a facility_id column.
C21_FacilityFilter ==
    (rq.some /\ Truthy(rq.req.facility_id)) =>
        /\ xres.status = "returned" => OnlyFacility(xres.result, rq.req.facility_id)
        /\ rres.status = "returned" => OnlyFacility(rres.result, rq.req.facility_id)

\* the errors of two facilities are stored and both sources answered
\* errors_summary for one of them with its row
C21_Witness ==
    /\ rq.some /\ rq.req.report = "errors_summary" /\ rq.req.facility_id = "FAC001"
    /\ \E r \in store.errors : r.facility_id = "FAC002" /\ r.timestamp >= rq.now - rq.req.range_days
    /\ xres.status = "returned" /\ Len(xres.result.rows) = 1
    /\ xres.result.rows[1][1] = S("FAC001")
    /\ rres.status = "returned" /\ Len(rres.result.rows) = 1
    /\ rres.result.rows[1][1] = S("FAC001")

\* at most limit rows, and the counts (third column) never increase
TopLimited(result, limit) ==
    /\ Len(result.rows) <= limit
    /\ \A i, j \in DOMAIN result.rows : i < j => result.rows[i][3].n >= result.rows[j][3].n

SelectedErrors ==
    { r \in store.errors :
        /\ r.timestamp >= rq.now - rq.req.range_days
        /\ Truthy(rq.req.facility_id) => r.facility_id = rq.req.facility_id }

\* the row errors_summary owes a facility
SummaryRow(f) ==
    LET g == { r \in SelectedErrors : r.facility_id = f }
    IN  <<S(f), N(Cardinality(g)),
          N(Cardinality({ r \in g : r.severity = "critical" })),
          N(Cardinality({ r.error_code : r \in g }))>>

TwoFilesLoaded ==
    /\ lpc = "done" /\ ldir.state = "present" /\ Len(ldir.files) = 2
    /\ ldir.files[1].fail = "none" /\ ldir.files[2].fail = "none"

\* the number of rows of the merged errors dataset
MergedErrors == Cardinality(xdata["errors"].recs)

\* no row occurs twice in the sheet
NoRepeat(rows) == \A i, j \in DOMAIN rows : i # j => rows[i] # rows[j]

\* the row counts the merge owes two files
SumOrOne(a, b) ==
    /\ Range(a) \cap Range(b) = {} => MergedErrors = Len(a) + Len(b)
    /\ a = b => MergedErrors = Len(a)

\* C23 as stated: loading two files whose errors sheets contribute disjoint
\* rows yields a merged errors dataset whose row count is the sum of the
\* two files' row counts; loading two identical files yields a row count
\* equal to one file's row count.
C23_MergeCounts ==
    TwoFilesLoaded => SumOrOne(ldir.files[1].errors, ldir.files[2].errors)

\* C23 amended: the same for files in whose errors sheet no row occurs
\* twice; in general the merged dataset holds each distinct row of the two
\* files once.
C23_MergeDistinct ==
    TwoFilesLoaded =>
        /\ xdata["errors"].recs = Range(ldir.files[1].errors) \cup Range(ldir.files[2].errors)
        /\ (NoRepeat(ldir.files[1].errors) /\ NoRepeat(ldir.files[2].errors)) =>
              SumOrOne(ldir.files[1].errors, ldir.files[2].errors)

\* two files with one row each, different rows: two rows are merged
C23_Witness ==
    /\ TwoFilesLoaded
    /\ Len(ldir.files[1].errors) = 1 /\ Len(ldir.files[2].errors) = 1
    /\ ldir.files[1].errors # ldir.files[2].errors
    /\ MergedErrors = 2

\* nothing can be loaded: the directory is absent, lists no file, cannot be
\* read, or holds only files that cannot be opened
NothingToLoad ==
    \/ ldir.state # "present"
    \/ \A i \in DOMAIN ldir.files : ldir.files[i].fail = "open"

\* C24: constructing the File-Backed Source never raises; when the directory
\* is absent, holds no matching files, or reading it fails, all four
\* datasets (errors, connectivity, facility_metadata, data_quality) are
\* present and empty.
C24_AlwaysConstructible ==
    /\ lpc # "raised"
    /\ (lpc = "done" /\ NothingToLoad) =>
          /\ DOMAIN xdata = Sheets
          /\ \A sh \in Sheets : DfEmpty(xdata[sh])

\* the directory could not be read and the source was constructed with its
\* four datasets empty
C24_Witness ==
    /\ lpc = "done" /\ ldir.state = "unreadable"
    /\ DOMAIN xdata = Sheets
    /\ \A sh \in Sheets : xdata[sh] = NoFrame(sh)

\* the rows of a sheet that the files loading without failure hold
HealthyRows(sheet) ==
    UNION { Range(SheetRows(ldir.files[i], sheet)) :
              i \in { j \in DOMAIN ldir.files : ldir.files[j].fail = "none" } }

\* C27: when a file of the directory fails while it is being loaded, that
\* file contributes no rows to any of the four datasets, and every row of
\* every other file is still merged.
C27_CorruptFileSkipped ==
    (lpc = "done" /\ ldir.state = "present" /\ ldir.files # <<>>) =>
        \A sh \in Sheets : xdata[sh].recs = HealthyRows(sh)

\* ---------------------------------------------------------------------
\* The allowlist
\* ---------------------------------------------------------------------

\* every requested column is in the allowed column set of the table
AllAllowed(table_name, columns) ==
    \A i \in DOMAIN columns : columns[i] \in Range(get_allowed_columns(table_name))

\* C25 as stated: validate_columns(table, columns) returns true if and only
\* if every requested column is in the table's allowed column set, and it
\* returns true for an empty requested column set.
C25_ColumnsAllowed ==
    vcol.some =>
        /\ vcol.result <=> AllAllowed(vcol.table, vcol.columns)
        /\ vcol.columns = <<>> => vcol.result

\* C25 amended: for a table of the allowlist validate_columns returns true
\* if and only if every requested column is in the table's allowed column
\* set, so true for an empty requested set; for a table that is not in the
\* allowlist it returns false whatever the columns.
C25_ColumnsAllowedOfTable ==
    vcol.some =>
        IF validate_table(vcol.table)
        THEN /\ vcol.result <=> AllAllowed(vcol.table, vcol.columns)
             /\ vcol.columns = <<>> => vcol.result
        ELSE ~vcol.result

\* an allowed and a foreign column of errors were asked about and refused
C25_Witness ==
    /\ vcol.some /\ vcol.table = "errors"
    /\ vcol.columns = <<"timestamp", "secret_column">>
    /\ ~vcol.result

\* ---------------------------------------------------------------------
\* Failing queries of the Warehouse-Backed Source
\* ---------------------------------------------------------------------

\* the i-th event of this call is a query execution that failed
FailedExecute(i) == wlog[i].ev = "execute" /\ ~wlog[i].ok

\* C28: when a query execution fails in the Warehouse-Backed Source, the
\* failing query is attempted exactly once, no further query of that report
\* call is executed, and the underlying database error is raised to the
\* caller of the report operation.
C28_FailsOnce ==
    \A i \in DOMAIN wlog :
        FailedExecute(i) =>
            /\ \A j \in DOMAIN wlog :
                  j # i => ~(wlog[j].ev = "execute" /\ wlog[j].qi = wlog[i].qi)
            /\ \A j \in DOMAIN wlog : j > i => wlog[j].ev \notin {"connect", "execute"}
            /\ wpc = "idle" => wres = [status |-> "raised", error |-> "DatabaseError"]

\* the first query of facility_summary failed: the call is over, the error
\* was raised and the second query was never executed
C28_Witness ==
    /\ wpc = "idle" /\ wreq.report = "facility_summary"
    /\ \E i \in DOMAIN wlog : FailedExecute(i) /\ wlog[i].qi = 1
    /\ Cardinality({ i \in DOMAIN wlog : wlog[i].ev = "execute" }) = 1
    /\ wres = [status |-> "raised", error |-> "DatabaseError"]

\* ---------------------------------------------------------------------
\* The computed rows of facility_summary
\* ---------------------------------------------------------------------

\* the facility asked for has a metadata row
KnownFacility ==
    /\ rq.some /\ rq.req.report = "facility_summary"
    /\ \E m \in store.facility_metadata : m.facility_id = rq.req.facility_id

\* an event of the facility in the table lies in range
InRange(table) ==
    \E r \in store[table] :
        r.facility_id = rq.req.facility_id /\ r.timestamp >= rq.now - rq.req.range_days

\* the result has a row for the metric
HasMetric(result, metric) == \E i \in DOMAIN result.rows : result.rows[i][1] = S(metric)

\* the rows of unavailable metrics are left out, the others are there, and
\* no row carries a null
MetricsWhenAvailable(result) ==
    /\ HasMetric(result, "errors_total") <=> InRange("errors")
    /\ HasMetric(result, "errors_critical") <=> InRange("errors")
    /\ HasMetric(result, "connectivity_pct") <=> InRange("connectivity")
    /\ HasMetric(result, "avg_data_quality_score") <=> InRange("data_quality")
    /\ \A i \in DOMAIN result.rows : \A j \in DOMAIN result.rows[i] : result.rows[i][j] # NULL

\* C29: in facility_summary for a facility that has a metadata row, the rows
\* errors_total and errors_critical are present exactly when at least one
\* error event of the facility lies in range, connectivity_pct exactly when
\* at least one connectivity event lies in range, and
\* avg_data_quality_score exactly when at least one quality sample lies in
\* range; no returned row carries a null value.
C29_MetricsOmitted ==
    KnownFacility =>
        /\ xres.status = "returned" => MetricsWhenAvailable(xres.result)
        /\ rres.status = "returned" => MetricsWhenAvailable(rres.result)

\* ---------------------------------------------------------------------
\* reset_data_source concurrent with get_data_source
\* ---------------------------------------------------------------------

\* C30: when reset_data_source runs concurrently with get_data_source, in
\* any interleaving, get_data_source still returns a source instance and
\* never returns an empty (None) value.
C30_NeverReturnsNone ==
    (last.some /\ ~last.raised) => IsCached(last.ret)
====
